---- MODULE Spec2Model ----
(***************************************************************************)
(* Wallet service: dual-mode authentication (bearer JWT / scoped API key)  *)
(* and the wallet ledger (deposit, webhook settlement, transfer).          *)
(*                                                                         *)
(* Storage is the relational store the handlers talk to through one ORM    *)
(* session per request.  A session keeps the rows it has read as objects,  *)
(* changes them in memory and writes them back as absolute column values   *)
(* (UPDATE wallets SET balance = <value computed in Python>) when it       *)
(* flushes.  Statements read the committed rows (read committed); an       *)
(* UPDATE takes the row's write lock until the session commits or rolls    *)
(* back; a unique constraint rejects a second row with the same key.       *)
(* Handlers yield at every awaited statement, so one action of the model   *)
(* is the code between two awaited statements.                             *)
(*                                                                         *)
(* Time is counted in minutes; the clock advances in ticks of 60 minutes.  *)
(***************************************************************************)
EXTENDS Integers, Sequences, FiniteSets, TLC

VARIABLES
    now,            \* the clock, datetime.now(timezone.utc)
    wallets,        \* table wallets: user_id -> balance (user_id is unique)
    transactions,   \* table transactions: reference -> row (reference is unique)
    transfers,      \* table transfers: sequence of rows in insertion order
    api_keys,       \* table api_keys: id -> row
    sess,           \* per request slot: the handler's position, its ORM objects, its response
    probe           \* last credential resolution made by AuthProbe

vars == <<now, wallets, transactions, transfers, api_keys, sess, probe>>

----------------------------------------------------------------------------
(* Bounds of the model *)

MaxTicks == 2           \* the clock stops after MaxTicks ticks
MaxTransfers == 2       \* rows of table transfers
MaxKeys == 7            \* rows of table api_keys

(* Program constants *)

ACCESS_TOKEN_EXPIRE_MINUTES == 30
TickMinutes == 60                   \* one tick of the clock: the shortest expiry window, "1H"
MaxTime == MaxTicks * TickMinutes
MaxActiveKeys == 5                  \* "if count >= 5"

Users == {"u1", "u2"}               \* rows of table users (signed up before Init)
Ghost == "u9"                       \* an id that is no row of table users
NoUser == "-"
Refs == {1, 2}                      \* the references uuid4 can return
UnknownRef == Cardinality(Refs) + 1 \* a reference this service never issued
NoRef == 0                          \* a payload without a reference
Amounts == {1, 2}                   \* amounts a caller asks for (kobo)
AppSecret == "app_secret_key"
WebhookSecret == "paystack_webhook_secret"
Scopes == {"deposit", "transfer", "read"}

----------------------------------------------------------------------------
(* Credentials *)

\* hashlib.sha256(x).hexdigest(): a collision-free digest of x
sha256(x) == <<"sha256", x>>

\* the plaintext key generate_api_key returns for its n-th random draw
PlainKey(n) == <<"sk_live_", n>>

NoKeyHeader == <<"none", 0>>

NoToken == [form |-> "none", sub |-> NoUser, exp |-> 0, key |-> ""]

\* jose.jwt.encode(claims, key, HS256)
jwt_encode(sub, exp, key) == [form |-> "jwt", sub |-> sub, exp |-> exp, key |-> key]

\* create_access_token({"sub": user.id}) at the current time
create_access_token(sub, t) == jwt_encode(sub, t + ACCESS_TOKEN_EXPIRE_MINUTES, AppSecret)

\* mutant: the exp claim is not verified
jwt_decode_NoExpiry(token, key, t) ==
    IF token.form # "jwt" THEN [ok |-> FALSE, sub |-> NoUser]
    ELSE IF token.key # key THEN [ok |-> FALSE, sub |-> NoUser]
    ELSE [ok |-> TRUE, sub |-> token.sub]

\* jose.jwt.decode(token, key): the claims, or JWTError for a malformed token,
\* a signature made with another key, or an exp claim in the past
jwt_decode(token, key, t) ==
    IF token.form # "jwt" THEN [ok |-> FALSE, sub |-> NoUser]
    ELSE IF token.key # key THEN [ok |-> FALSE, sub |-> NoUser]
    ELSE IF token.exp < t THEN [ok |-> FALSE, sub |-> NoUser]
    ELSE [ok |-> TRUE, sub |-> token.sub]

NoHeader == [scheme |-> "none", token |-> NoToken]
Bearer(token) == [scheme |-> "Bearer", token |-> token]

AuthFail(code, detail) ==
    [code |-> code, user |-> NoUser, via |-> "none", key |-> 0, detail |-> detail]
\* 403: the key that lacks the permission is kept for the response's detail
Forbidden(key) ==
    [code |-> 403, user |-> NoUser, via |-> "none", key |-> key,
     detail |-> "API key does not have the permission"]
AuthOk(user, via, key) ==
    [code |-> 200, user |-> user, via |-> via, key |-> key, detail |-> "ok"]

KeyIdsByHash(keys, h) == {k \in DOMAIN keys : keys[k].key_hash = h}

\* mutant: the expiry is checked before the active flag
get_user_from_api_key_ExpiryFirst(x_api_key, keys, t) ==
    IF x_api_key = NoKeyHeader THEN AuthFail(401, "API key required")
    ELSE LET found == KeyIdsByHash(keys, sha256(x_api_key)) IN
         IF found = {} THEN AuthFail(401, "Invalid API key")
         ELSE LET k == CHOOSE k \in found : TRUE IN
              IF keys[k].expires_at < t THEN AuthFail(401, "API key has expired")
              ELSE IF ~keys[k].is_active THEN AuthFail(401, "API key has been revoked")
              ELSE IF keys[k].user_id \notin Users THEN AuthFail(401, "User not found")
              ELSE AuthOk(keys[k].user_id, "api_key", k)

\* get_user_from_api_key
get_user_from_api_key(x_api_key, keys, t) ==
    IF x_api_key = NoKeyHeader THEN AuthFail(401, "API key required")
    ELSE LET found == KeyIdsByHash(keys, sha256(x_api_key)) IN
         IF found = {} THEN AuthFail(401, "Invalid API key")
         ELSE LET k == CHOOSE k \in found : TRUE IN
              IF ~keys[k].is_active THEN AuthFail(401, "API key has been revoked")
              ELSE IF keys[k].expires_at < t THEN AuthFail(401, "API key has expired")
              ELSE IF keys[k].user_id \notin Users THEN AuthFail(401, "User not found")
              ELSE AuthOk(keys[k].user_id, "api_key", k)

\* mutant: the subject of the token is read without verifying the token
BearerResolves_Unverified(authorization, t) ==
    /\ authorization.scheme = "Bearer"
    /\ authorization.token.form = "jwt"
    /\ authorization.token.sub \in Users

\* the bearer branch shared by permission_checker and get_current_user:
\* TRUE when the header carries a token that decodes and names a stored user
BearerResolves(authorization, t) ==
    /\ authorization.scheme = "Bearer"
    /\ LET payload == jwt_decode(authorization.token, AppSecret, t) IN
       /\ payload.ok
       /\ payload.sub # NoUser
       /\ payload.sub \in Users

\* mutant: the permission check is skipped
HasPermission_Always(required_permission, permissions) == TRUE

\* line 196: the permission check made for API-key callers
HasPermission(required_permission, permissions) == required_permission \in permissions

\* mutant: the API key is consulted before the bearer token
require_permission_KeyFirst(required_permission, authorization, x_api_key, keys, t) ==
    IF x_api_key # NoKeyHeader
    THEN LET r == get_user_from_api_key(x_api_key, keys, t) IN
         IF r.code # 200 THEN r
         ELSE IF ~HasPermission(required_permission, keys[r.key].permissions)
         THEN Forbidden(r.key)
         ELSE r
    ELSE IF BearerResolves(authorization, t)
    THEN AuthOk(jwt_decode(authorization.token, AppSecret, t).sub, "jwt", 0)
    ELSE AuthFail(401, "Authentication required")

\* require_permission(required_permission) -> permission_checker
require_permission(required_permission, authorization, x_api_key, keys, t) ==
    IF BearerResolves(authorization, t)
    THEN AuthOk(jwt_decode(authorization.token, AppSecret, t).sub, "jwt", 0)
    ELSE IF x_api_key # NoKeyHeader
    THEN LET r == get_user_from_api_key(x_api_key, keys, t) IN
         IF r.code # 200 THEN r
         ELSE IF ~HasPermission(required_permission, keys[r.key].permissions)
         THEN Forbidden(r.key)
         ELSE r
    ELSE AuthFail(401, "Authentication required")

\* security = HTTPBearer(): a request without an "Authorization: Bearer ..."
\* header is refused by the scheme before get_current_user runs, with status
\* 403 or 401 depending on the installed framework release (not pinned in the
\* repository), in both cases with the scheme's own detail
HTTPBearerErrors == {403, 401}

\* get_current_user behind HTTPBearer; e is the status the scheme refuses with
get_current_user(authorization, t, e) ==
    IF authorization.scheme # "Bearer" THEN AuthFail(e, "Not authenticated")
    ELSE IF BearerResolves(authorization, t)
    THEN AuthOk(jwt_decode(authorization.token, AppSecret, t).sub, "jwt", 0)
    ELSE AuthFail(401, "Could not validate credentials")

----------------------------------------------------------------------------
(* Request slots *)

Idle ==
    [pc |-> "idle", op |-> "none", user |-> NoUser, via |-> "none", key |-> 0,
     event |-> "", reference |-> 0, amount |-> 0, wallet_number |-> NoUser,
     wallet |-> 0, wallet_is_new |-> FALSE,
     sender_wallet |-> 0, recipient_wallet |-> 0,
     expired_key_id |-> 0, name |-> "", permissions |-> {}, expiry |-> "", new_key |-> 0,
     signature |-> <<>>, payload |-> <<>>, reply |-> "none", history |-> <<>>, authorization_url |-> <<>>, paid_at |-> 0 - 1,
     code |-> 0, detail |-> "", reported |-> 0]

Procs == DOMAIN sess
CanBegin(p) == sess[p].pc = "idle"
InFlight(p) == sess[p].pc \notin {"idle", "done"}

\* the slot of a request that ended with a response
Done(op, auth, code, detail) ==
    [Idle EXCEPT !.pc = "done", !.op = op, !.user = auth.user, !.via = auth.via,
                 !.key = auth.key, !.code = code, !.detail = detail]

\* the slot of a request that goes on to its next awaited statement
At(pc, op, auth) ==
    [Idle EXCEPT !.pc = pc, !.op = op, !.user = auth.user, !.via = auth.via,
                 !.key = auth.key]

Set(p, slot) == sess' = [sess EXCEPT ![p] = slot]

\* the response has been sent and get_db has closed the session: the slot is free
close_session(p) ==
    /\ sess[p].pc = "done"
    /\ Set(p, Idle)
    /\ UNCHANGED <<now, wallets, transactions, transfers, api_keys, probe>>

\* the credentials callers present
TokenInputs ==
    { jwt_encode(s, e, k) : s \in Users \cup {Ghost, NoUser},
                            e \in {now - TickMinutes, now + ACCESS_TOKEN_EXPIRE_MINUTES},
                            k \in {AppSecret, "forged"} }
    \cup {[form |-> "garbage", sub |-> NoUser, exp |-> 0, key |-> ""]}
AuthHeaders ==
    {NoHeader, [scheme |-> "Basic", token |-> NoToken]} \cup {Bearer(tok) : tok \in TokenInputs}
\* every stored key's secret, and one that is not stored
KeyHeaders ==
    {NoKeyHeader} \cup {PlainKey(n) : n \in 1..(Cardinality(DOMAIN api_keys) + 1)}

----------------------------------------------------------------------------
(* Webhook payloads *)

\* hmac.new(secret, body, hashlib.sha512).hexdigest()
hmac_sha512(secret, body) == <<"hmac_sha512", secret, body>>
NoSignature == <<"none", "", [event |-> "", reference |-> NoRef]>>

Events == {"charge.success", "charge.failed", "transfer.success"}
Bodies == [event : Events, reference : Refs \cup {UnknownRef, NoRef}]
Signatures(body) ==
    {NoSignature, hmac_sha512(WebhookSecret, body), hmac_sha512("forged", body)}
    \cup {hmac_sha512(WebhookSecret, b) : b \in {c \in Bodies : c.event = body.event}}

\* mutant: any signature header is accepted
SignatureValid_SkipCompare(body, x_paystack_signature) == TRUE

\* hmac.compare_digest(computed_signature, x_paystack_signature)
SignatureValid(body, x_paystack_signature) ==
    hmac_sha512(WebhookSecret, body) = x_paystack_signature

Webhook == [Idle EXCEPT !.op = "webhook"]

----------------------------------------------------------------------------
(* POST /wallet/paystack/webhook *)

\* the session holds the write lock of the transaction row it has flushed
HoldsTransactionLock(q, reference) ==
    sess[q].pc = "webhook_commit" /\ sess[q].reference = reference

\* mutant: the status of the transaction is not tested
ShouldSettle_AnyStatus(rows, reference) == reference \in DOMAIN rows

\* lines 184-187: the transaction exists and is PENDING
ShouldSettle(rows, reference) ==
    reference \in DOMAIN rows /\ rows[reference].status = "pending"

\* mutant: every event type is settled as a successful charge
IsChargeSuccess_AnyEvent(event_type) == TRUE

\* line 179: event_type == "charge.success"
IsChargeSuccess(event_type) == event_type = "charge.success"

\* mutant: the amount credited is the amount the event's data names
settlement_amount_FromPayload(transaction, data) == data.amount

\* mutant: the wallet credited is the wallet of the customer the event's data names
settlement_user_FromPayload(transaction, data) == data.customer

\* line 208: wallet.balance += transaction.amount, whatever the event's data holds
settlement_amount(transaction, data) == transaction.amount

\* line 193: Wallet.user_id == transaction.user_id, whatever the event's data holds
settlement_user(transaction, data) == transaction.user_id

\* lines 148-190: signature check, parse, SELECT the transaction, test PENDING,
\* set status and paid_at = datetime.now() on the transaction object
paystack_webhook(p, body, x_paystack_signature) ==
    /\ CanBegin(p)
    /\ UNCHANGED <<now, wallets, transactions, transfers, api_keys, probe>>
    /\ LET Received == [Webhook EXCEPT !.event = body.event, !.reference = body.reference,
                                       !.signature = x_paystack_signature] IN
       IF x_paystack_signature = NoSignature
       THEN Set(p, [Received EXCEPT !.pc = "done", !.code = 400,
                                    !.detail = "Missing Paystack signature"])
       ELSE IF ~SignatureValid(body, x_paystack_signature)
       THEN Set(p, [Received EXCEPT !.pc = "done", !.code = 400,
                                    !.detail = "Invalid signature"])
       ELSE IF /\ IsChargeSuccess(body.event)
               /\ body.reference # NoRef
               /\ ShouldSettle(transactions, body.reference)
       THEN Set(p, [Received EXCEPT !.pc = "webhook_wallet",
                                    !.user = settlement_user(transactions[body.reference], body),
                                    !.amount = settlement_amount(transactions[body.reference], body),
                                    !.paid_at = now])
       ELSE Set(p, [Received EXCEPT !.pc = "done", !.code = 200, !.detail = "ignored"])

\* mutant: the settlement adds the amount twice
webhook_credit_Twice(balance, amount) == balance + amount + amount

\* lines 189-208: autoflush UPDATE transactions (takes the row lock), SELECT the
\* wallet, create it if absent, add the amount to the wallet object
webhook_credit(balance, amount) == balance + amount

webhook_select_wallet(p) ==
    /\ sess[p].pc = "webhook_wallet"
    /\ \A q \in Procs \ {p} : ~HoldsTransactionLock(q, sess[p].reference)
    /\ UNCHANGED <<now, wallets, transactions, transfers, api_keys, probe>>
    /\ LET found == sess[p].user \in DOMAIN wallets
           balance == IF found THEN wallets[sess[p].user] ELSE 0
       IN Set(p, [sess[p] EXCEPT !.pc = "webhook_commit",
                                 !.wallet_is_new = ~found,
                                 !.wallet = webhook_credit(balance, sess[p].amount)])

\* line 210: flush the wallet (INSERT or UPDATE balance = value) and commit;
\* a second wallet for the user violates the unique constraint: line 220
webhook_commit(p) ==
    /\ sess[p].pc = "webhook_commit"
    /\ UNCHANGED <<now, transfers, api_keys, probe>>
    /\ IF sess[p].wallet_is_new /\ sess[p].user \in DOMAIN wallets
       THEN /\ UNCHANGED <<wallets, transactions>>
            /\ Set(p, [sess[p] EXCEPT !.pc = "done", !.code = 500, !.detail = "Server error"])
       ELSE /\ transactions' = [transactions EXCEPT
                    ![sess[p].reference].status = "success",
                    ![sess[p].reference].paid_at = sess[p].paid_at]
            /\ wallets' = [u \in DOMAIN wallets \cup {sess[p].user} |->
                              IF u = sess[p].user THEN sess[p].wallet ELSE wallets[u]]
            /\ Set(p, [sess[p] EXCEPT !.pc = "done", !.code = 200, !.detail = "credited"])

----------------------------------------------------------------------------
(* POST /wallet/deposit *)

NoTime == 0 - 1                     \* a NULL timestamp
NoUrl == <<>>                       \* a NULL authorization_url

\* the amount of a request body: a JSON integer (kobo), or a JSON float (naira),
\* written here in thousandths of a naira, that is in tenths of a kobo
Kobo(n) == <<"int", n>>
Naira(thousandths) == <<"float", thousandths>>

\* Python's round() of tenths / 10: to the nearest integer, a half to the even one
round(tenths) ==
    LET q == tenths \div 10
        r == tenths % 10
    IN  IF r < 5 THEN q
        ELSE IF r > 5 THEN q + 1
        ELSE IF q % 2 = 0 THEN q ELSE q + 1

\* mutant: the converter drops the sign of the amount
convert_to_kobo_Magnitude(v) ==
    LET k == IF v[1] = "float" THEN round(v[2]) ELSE v[2]
    IN  IF k < 0 THEN 0 - k ELSE k

\* schemas.py lines 23-37: a float is naira, int(round(v * 100)); an int is kobo
convert_to_kobo(v) == IF v[1] = "float" THEN round(v[2]) ELSE v[2]

\* schemas.py line 21: Field(..., gt=0)
AmountAccepted(amount) == amount > 0

\* what the call to the provider ends in: a success body with the URL, a status
\* other than 200, a body whose status is false, a transport error or timeout,
\* a success body without data.authorization_url
ProviderReplies == {"ok", "non200", "status_false", "timeout", "no_url"}

\* the authorization_url Paystack returns for a reference
authorization_url(reference) == <<"https://checkout.paystack.com", reference>>

\* mutant: the lookup never finds the reference and nothing keeps it unique
ReferenceExists_Never(reference, rows) == FALSE

\* lines 63-66: SELECT the transaction with this reference; models.py line 29:
\* the column is unique, an INSERT of a reference that exists is refused
ReferenceExists(reference, rows) == reference \in DOMAIN rows

\* mutant: every reply of the provider is taken for a success
ProviderRefuses_Never(reply) == FALSE

\* lines 88-100: response.status_code != 200, or not paystack_data.get("status")
ProviderRefuses(reply) == reply \in {"non200", "status_false"}

\* lines 74, 94, 102: client.post raises (timeout, transport), or the body has no
\* data.authorization_url (KeyError); caught at line 123
ProviderRaises(reply) == reply \in {"timeout", "no_url"}

\* line 102: paystack_data["data"]["authorization_url"]
initialize(reference, reply) ==
    IF reply = "ok" THEN authorization_url(reference) ELSE NoUrl

\* the row wallet_deposit persists (lines 105-111)
PendingTransaction(user, amount, reference, url, t) ==
    [user_id |-> user, amount |-> amount, status |-> "pending",
     authorization_url |-> url,
     paid_at |-> NoTime, created_at |-> t]

\* lines 36-102: resolve the caller, validate, draw a reference, look it up,
\* call the provider
wallet_deposit(p, authorization, x_api_key, payload, reference, reply) ==
    /\ CanBegin(p)
    /\ UNCHANGED <<now, wallets, transactions, transfers, api_keys, probe>>
    /\ LET auth == require_permission("deposit", authorization, x_api_key, api_keys, now)
           amount == convert_to_kobo(payload)
       IN
       IF auth.code # 200
       THEN Set(p, [Done("deposit", auth, auth.code, auth.detail) EXCEPT
                        !.payload = payload])
       ELSE IF ~AmountAccepted(amount)
       THEN Set(p, [Done("deposit", auth, 422, "amount must be greater than 0") EXCEPT
                        !.payload = payload])
       ELSE IF amount <= 0
       THEN Set(p, [Done("deposit", auth, 400, "Amount must be greater than 0") EXCEPT
                        !.payload = payload])
       ELSE IF ReferenceExists(reference, transactions)
       THEN Set(p, [Done("deposit", auth, 201, "existing") EXCEPT
                        !.payload = payload,
                        !.reference = reference, !.amount = amount,
                        !.authorization_url = transactions[reference].authorization_url])
       ELSE IF ProviderRefuses(reply)
       THEN Set(p, [Done("deposit", auth, 402, "Payment initiation failed") EXCEPT
                        !.payload = payload,
                        !.reference = reference, !.amount = amount, !.reply = reply])
       ELSE IF ProviderRaises(reply)
       THEN Set(p, [Done("deposit", auth, 500, "Internal error") EXCEPT
                        !.payload = payload,
                        !.reference = reference, !.amount = amount, !.reply = reply])
       ELSE Set(p, [At("deposit_commit", "deposit", auth) EXCEPT
                        !.payload = payload,
                        !.reference = reference, !.amount = amount, !.reply = reply,
                        !.authorization_url = initialize(reference, reply)])

\* lines 112-119: INSERT the transaction and commit
deposit_commit(p) ==
    /\ sess[p].pc = "deposit_commit"
    /\ UNCHANGED <<now, wallets, transfers, api_keys, probe>>
    /\ IF ReferenceExists(sess[p].reference, transactions)
       THEN /\ UNCHANGED transactions
            /\ Set(p, [sess[p] EXCEPT !.pc = "done", !.code = 500, !.detail = "Internal error"])
       ELSE /\ transactions' =
                [r \in DOMAIN transactions \cup {sess[p].reference} |->
                    IF r = sess[p].reference
                    THEN PendingTransaction(sess[p].user, sess[p].amount, r,
                                            sess[p].authorization_url, now)
                    ELSE transactions[r]]
            /\ Set(p, [sess[p] EXCEPT !.pc = "done", !.code = 201, !.detail = "created"])

----------------------------------------------------------------------------
(* GET /wallet/deposit/{reference}/status *)

\* mutant: the query marks a PENDING transaction SUCCESS, as a status route
\* that refreshes from the provider would
get_deposit_status_Refresh(p, reference) ==
    /\ CanBegin(p)
    /\ UNCHANGED <<now, wallets, transfers, api_keys, probe>>
    /\ IF reference \notin DOMAIN transactions
       THEN /\ UNCHANGED transactions
            /\ Set(p, [Idle EXCEPT !.pc = "done", !.op = "status", !.reference = reference,
                                   !.code = 404, !.detail = "Transaction not found"])
       ELSE /\ transactions' = [transactions EXCEPT ![reference].status = "success",
                                                    ![reference].paid_at = now]
            /\ Set(p, [Idle EXCEPT !.pc = "done", !.op = "status", !.reference = reference,
                                   !.code = 200, !.detail = "success",
                                   !.amount = transactions[reference].amount,
                                   !.paid_at = now])

\* lines 228-258: SELECT the transaction (no credential is asked for) and report
\* its status; 404 when no row has the reference
get_deposit_status(p, reference) ==
    /\ CanBegin(p)
    /\ UNCHANGED <<now, wallets, transactions, transfers, api_keys, probe>>
    /\ IF reference \notin DOMAIN transactions
       THEN Set(p, [Idle EXCEPT !.pc = "done", !.op = "status", !.reference = reference,
                                !.code = 404, !.detail = "Transaction not found"])
       ELSE Set(p, [Idle EXCEPT !.pc = "done", !.op = "status", !.reference = reference,
                                !.code = 200, !.detail = transactions[reference].status,
                                !.amount = transactions[reference].amount,
                                !.paid_at = transactions[reference].paid_at])

----------------------------------------------------------------------------
(* GET /wallet/balance *)

\* lines 269-286, 297: resolve the caller, SELECT the wallet
get_wallet_balance(p, authorization, x_api_key) ==
    /\ CanBegin(p)
    /\ UNCHANGED <<now, wallets, transactions, transfers, api_keys, probe>>
    /\ LET auth == require_permission("read", authorization, x_api_key, api_keys, now) IN
       IF auth.code # 200
       THEN Set(p, Done("balance", auth, auth.code, auth.detail))
       ELSE IF auth.user \in DOMAIN wallets
       THEN Set(p, [Done("balance", auth, 200, "balance") EXCEPT
                        !.reported = wallets[auth.user]])
       ELSE Set(p, [At("balance_commit", "balance", auth) EXCEPT !.wallet_is_new = TRUE])

\* lines 288-297: INSERT the wallet with balance 0 and commit
balance_commit(p) ==
    /\ sess[p].pc = "balance_commit"
    /\ UNCHANGED <<now, transactions, transfers, api_keys, probe>>
    /\ IF sess[p].user \in DOMAIN wallets
       THEN /\ UNCHANGED wallets
            /\ Set(p, [sess[p] EXCEPT !.pc = "done", !.code = 500, !.detail = "Internal error"])
       ELSE /\ wallets' = [u \in DOMAIN wallets \cup {sess[p].user} |->
                              IF u = sess[p].user THEN 0 ELSE wallets[u]]
            /\ Set(p, [sess[p] EXCEPT !.pc = "done", !.code = 200, !.detail = "balance",
                                      !.reported = 0])

----------------------------------------------------------------------------
(* GET /wallet/transactions *)

\* mutant: the deposits are selected whatever their status
IsHistoryDeposit_AnyStatus(row, user_id) == row.user_id = user_id

\* lines 427-430: WHERE user_id = current_user.id AND status = SUCCESS
IsHistoryDeposit(row, user_id) == row.user_id = user_id /\ row.status = "success"

\* lines 445-447: WHERE sender_id = current_user.id
IsHistoryTransfer(row, user_id) == row.sender_id = user_id

\* lines 435-441 and 452-458: the TransactionHistoryItem of a row
DepositItem(row) ==
    [type |-> "deposit", amount |-> row.amount, status |-> row.status,
     timestamp |-> IF row.paid_at # NoTime THEN row.paid_at ELSE row.created_at]
TransferItem(row) ==
    [type |-> "transfer", amount |-> row.amount, status |-> row.status,
     timestamp |-> row.created_at]

\* the rows the two SELECTs return, each tagged with its table
HistoryEntries(user_id) ==
    {<<"deposit", r>> : r \in {x \in DOMAIN transactions :
                                  IsHistoryDeposit(transactions[x], user_id)}}
    \cup {<<"transfer", i>> : i \in {x \in DOMAIN transfers :
                                        IsHistoryTransfer(transfers[x], user_id)}}
EntryItem(e) ==
    IF e[1] = "deposit" THEN DepositItem(transactions[e[2]]) ELSE TransferItem(transfers[e[2]])
EntryCreated(e) ==
    IF e[1] = "deposit" THEN transactions[e[2]].created_at ELSE transfers[e[2]].created_at

\* lines 431, 448, 461: each SELECT is ORDER BY created_at DESC (rows of equal
\* created_at in any order), the deposits are appended before the transfers, and
\* the list is then sorted by timestamp, descending, by a stable sort
MayPrecede(a, b) ==
    \/ EntryItem(a).timestamp > EntryItem(b).timestamp
    \/ /\ EntryItem(a).timestamp = EntryItem(b).timestamp
       /\ ~(a[1] = "transfer" /\ b[1] = "deposit")
       /\ (a[1] = b[1]) => EntryCreated(a) >= EntryCreated(b)

\* the lists the handler can return
HistoryLists(user_id) ==
    LET E == HistoryEntries(user_id)
        n == Cardinality(E)
        orders == {f \in [1..n -> E] :
                      /\ \A k, l \in 1..n : k # l => f[k] # f[l]
                      /\ \A k, l \in 1..n : k < l => MayPrecede(f[k], f[l])}
    IN  {[k \in 1..n |-> EntryItem(f[k])] : f \in orders}

\* lines 410-461: resolve the caller, SELECT the caller's SUCCESS deposits and
\* sent transfers; the response lists one item for each, latest first
get_transaction_history(p, authorization, x_api_key) ==
    /\ CanBegin(p)
    /\ UNCHANGED <<now, wallets, transactions, transfers, api_keys, probe>>
    /\ LET auth == require_permission("read", authorization, x_api_key, api_keys, now) IN
       IF auth.code # 200
       THEN Set(p, Done("history", auth, auth.code, auth.detail))
       ELSE \E history \in HistoryLists(auth.user) :
               Set(p, [Done("history", auth, 200, "history") EXCEPT
                          !.history = history, !.reported = Len(history)])

----------------------------------------------------------------------------
(* POST /wallet/transfer *)

\* mutant: the balance check is off by one
InsufficientBalance_OffByOne(balance, amount) == balance < amount - 1

\* line 345: the balance check
InsufficientBalance(balance, amount) == balance < amount

\* mutant: the recipient's balance is overwritten instead of increased
transfer_credit_Overwrite(balance, amount) == amount

\* mutant: the sender's balance is left as it was
transfer_debit_None(balance, amount) == balance

\* lines 379-380: the new balances of the two wallet objects
transfer_debit(balance, amount) == balance - amount
transfer_credit(balance, amount) == balance + amount

\* the row of lines 383-389
TransferRow(sender, recipient, amount, t) ==
    [sender_id |-> sender, recipient_id |-> recipient, amount |-> amount,
     status |-> "success", created_at |-> t]

\* requests that have passed the checks and will insert a transfer row
TransfersInFlight == Cardinality({q \in Procs : sess[q].op = "transfer" /\ InFlight(q)})

\* mutant: a transfer to oneself is let through
IsSelfTransfer_Never(wallet_number, user_id) == FALSE

\* line 328: transfer_request.wallet_number == current_user.id
IsSelfTransfer(wallet_number, user_id) == wallet_number = user_id

\* mutant: the refusal reports the shortfall instead of the balance
ReportedBalance_Shortfall(balance, amount) == amount - balance

\* line 348: "Insufficient balance. Available: {sender_wallet.balance} kobo"
ReportedBalance(balance, amount) == balance

\* lines 309-349: resolve the caller, validate, SELECT the sender's wallet,
\* check the balance
wallet_transfer(p, authorization, x_api_key, wallet_number, amount) ==
    /\ CanBegin(p)
    /\ UNCHANGED <<now, wallets, transactions, transfers, api_keys, probe>>
    /\ LET auth == require_permission("transfer", authorization, x_api_key, api_keys, now)
       IN
       IF auth.code # 200
       THEN Set(p, Done("transfer", auth, auth.code, auth.detail))
       ELSE IF amount <= 0
       THEN Set(p, [Done("transfer", auth, 422, "amount must be greater than 0") EXCEPT
                        !.wallet_number = wallet_number, !.amount = amount])
       ELSE IF IsSelfTransfer(wallet_number, auth.user)
       THEN Set(p, [Done("transfer", auth, 400, "Cannot transfer to your own wallet") EXCEPT
                        !.wallet_number = wallet_number, !.amount = amount])
       ELSE IF auth.user \notin DOMAIN wallets
       THEN Set(p, [Done("transfer", auth, 400, "Sender wallet not found") EXCEPT
                        !.wallet_number = wallet_number, !.amount = amount])
       ELSE IF InsufficientBalance(wallets[auth.user], amount)
       THEN Set(p, [Done("transfer", auth, 400, "Insufficient balance") EXCEPT
                        !.wallet_number = wallet_number, !.amount = amount,
                        !.reported = ReportedBalance(wallets[auth.user], amount)])
       ELSE /\ Len(transfers) + TransfersInFlight < MaxTransfers
            /\ Set(p, [At("transfer_recipient", "transfer", auth) EXCEPT
                        !.wallet_number = wallet_number, !.amount = amount,
                        !.sender_wallet = wallets[auth.user]])

\* lines 351-390: SELECT the recipient's wallet, else the recipient user and a
\* new wallet object; debit and credit the two wallet objects
transfer_select_recipient(p) ==
    /\ sess[p].pc = "transfer_recipient"
    /\ UNCHANGED <<now, wallets, transactions, transfers, api_keys, probe>>
    /\ LET found == sess[p].wallet_number \in DOMAIN wallets IN
       IF ~found /\ sess[p].wallet_number \notin Users
       THEN Set(p, [sess[p] EXCEPT !.pc = "done", !.code = 404,
                                   !.detail = "Recipient wallet not found"])
       ELSE Set(p, [sess[p] EXCEPT
                !.pc = "transfer_commit",
                !.wallet_is_new = ~found,
                !.sender_wallet = transfer_debit(sess[p].sender_wallet, sess[p].amount),
                !.recipient_wallet =
                    transfer_credit(IF found THEN wallets[sess[p].wallet_number] ELSE 0,
                                    sess[p].amount)])

\* mutant: the statements flushed before the fault stay applied (the debit is kept)
transfer_rollback_KeepDebit(committed, slot) ==
    [committed EXCEPT ![slot.user] = slot.sender_wallet]

\* line 402: db.rollback() discards what the session has flushed and not committed
transfer_rollback(committed, slot) == committed

\* line 392: flush (INSERT or UPDATE the recipient's wallet, UPDATE the sender's
\* wallet, INSERT the transfer) and commit; lines 401-406 on a constraint error
transfer_commit(p) ==
    /\ sess[p].pc = "transfer_commit"
    /\ UNCHANGED <<now, transactions, api_keys, probe>>
    /\ IF sess[p].wallet_is_new /\ sess[p].wallet_number \in DOMAIN wallets
       THEN /\ UNCHANGED transfers
            /\ wallets' = transfer_rollback(wallets, sess[p])
            /\ Set(p, [sess[p] EXCEPT !.pc = "done", !.code = 500, !.detail = "Internal error"])
       ELSE /\ wallets' = [u \in DOMAIN wallets \cup {sess[p].wallet_number} |->
                              IF u = sess[p].user THEN sess[p].sender_wallet
                              ELSE IF u = sess[p].wallet_number THEN sess[p].recipient_wallet
                              ELSE wallets[u]]
            /\ transfers' = Append(transfers,
                    TransferRow(sess[p].user, sess[p].wallet_number, sess[p].amount, now))
            /\ Set(p, [sess[p] EXCEPT !.pc = "done", !.code = 200, !.detail = "success"])

\* lines 392, 401-406: the flush or the commit raises (the storage is lost, a
\* statement fails); the handler rolls back and answers 500
transfer_fault(p) ==
    /\ sess[p].pc = "transfer_commit"
    /\ UNCHANGED <<now, transactions, transfers, api_keys, probe>>
    /\ wallets' = transfer_rollback(wallets, sess[p])
    /\ Set(p, [sess[p] EXCEPT !.pc = "done", !.code = 500, !.detail = "Internal error"])

----------------------------------------------------------------------------
(* POST /keys/create, POST /keys/rollover *)

\* parse_expiry: the expiry timestamp, in minutes (the schema's pattern admits
\* only the four formats, so the ValueError branch is not reached)
parse_expiry(expiry, t) ==
    CASE expiry = "1H" -> t + 60
      [] expiry = "1D" -> t + 24 * 60
      [] expiry = "1M" -> t + 30 * 24 * 60
      [] expiry = "1Y" -> t + 365 * 24 * 60
      [] OTHER -> NoTime

\* the schema's pattern "^(1H|1D|1M|1Y)$"
ExpiryPatternOk(expiry) == expiry \in {"1H", "1D", "1M", "1Y"}

\* APIKeyCreateRequest.validate_permissions and min_items=1
PermissionsOk(permissions) == permissions # {} /\ permissions \subseteq Scopes

\* the row of lines 98-106 and 184-192
KeyRow(user, name, n, permissions, expires_at) ==
    [user_id |-> user, name |-> name, key_hash |-> sha256(PlainKey(n)),
     permissions |-> permissions, expires_at |-> expires_at, is_active |-> TRUE,
     revoked_at |-> NoTime]

\* the count query of lines 70-77 and 156-163
CountsAsActive(row, user, t) ==
    row.user_id = user /\ row.is_active /\ row.expires_at > t
active_keys_count(keys, user, t) ==
    Cardinality({k \in DOMAIN keys : CountsAsActive(keys[k], user, t)})

\* mutant: the ceiling is compared one too high
KeyLimitReached_OffByOne(count) == count > MaxActiveKeys

\* line 79, line 165
KeyLimitReached(count) == count >= MaxActiveKeys

\* line 149: the key is not expired yet
NotExpiredYet(row, t) == row.expires_at > t

KeyInsertsInFlight == Cardinality({q \in Procs : sess[q].pc = "key_commit"})
KeyRoom == Cardinality(DOMAIN api_keys) + KeyInsertsInFlight < MaxKeys

\* lines 56-83: resolve the caller, validate the body, count the active keys
create_api_key(p, authorization, name, permissions, expiry) ==
    /\ CanBegin(p)
    /\ UNCHANGED <<now, wallets, transactions, transfers, api_keys, probe>>
    /\ \E e \in HTTPBearerErrors :
       LET auth == get_current_user(authorization, now, e) IN
       IF auth.code # 200
       THEN Set(p, Done("create_key", auth, auth.code, auth.detail))
       ELSE IF ~PermissionsOk(permissions) \/ ~ExpiryPatternOk(expiry)
       THEN Set(p, Done("create_key", auth, 422, "validation error"))
       ELSE IF KeyLimitReached(active_keys_count(api_keys, auth.user, now))
       THEN Set(p, Done("create_key", auth, 400, "Maximum of 5 active API keys"))
       ELSE /\ KeyRoom
            /\ Set(p, [At("key_commit", "create_key", auth) EXCEPT
                        !.name = name, !.permissions = permissions, !.expiry = expiry])

\* lines 119-169: resolve the caller, SELECT the key by id and owner, check that
\* it is expired, count the active keys; the new key takes the old key's name
\* and permissions (lines 187, 189)
\* mutant: the new key is granted every scope
rollover_permissions_All(expired_key) == Scopes

\* mutant: the key is selected by its id alone
OwnsKey_AnyOwner(keys, expired_key_id, user_id) == expired_key_id \in DOMAIN keys

\* lines 132-138: WHERE id = expired_key_id AND user_id = current_user.id
OwnsKey(keys, expired_key_id, user_id) ==
    expired_key_id \in DOMAIN keys /\ keys[expired_key_id].user_id = user_id

rollover_name(expired_key) == expired_key.name
rollover_permissions(expired_key) == expired_key.permissions

rollover_api_key(p, authorization, expired_key_id, expiry) ==
    /\ CanBegin(p)
    /\ UNCHANGED <<now, wallets, transactions, transfers, api_keys, probe>>
    /\ \E e \in HTTPBearerErrors :
       LET auth == get_current_user(authorization, now, e)
           Refused(code, detail) ==
               [Done("rollover", auth, code, detail) EXCEPT
                   !.expired_key_id = expired_key_id, !.expiry = expiry] IN
       IF auth.code # 200
       THEN Set(p, Refused(auth.code, auth.detail))
       ELSE IF ~ExpiryPatternOk(expiry)
       THEN Set(p, Refused(422, "validation error"))
       ELSE IF ~OwnsKey(api_keys, expired_key_id, auth.user)
       THEN Set(p, Refused(404, "API key not found"))
       ELSE IF NotExpiredYet(api_keys[expired_key_id], now)
       THEN Set(p, Refused(400, "API key is not expired yet"))
       ELSE IF KeyLimitReached(active_keys_count(api_keys, auth.user, now))
       THEN Set(p, Refused(400, "Maximum of 5 active API keys"))
       ELSE /\ KeyRoom
            /\ Set(p, [At("key_commit", "rollover", auth) EXCEPT
                        !.expired_key_id = expired_key_id,
                        !.name = rollover_name(api_keys[expired_key_id]),
                        !.permissions = rollover_permissions(api_keys[expired_key_id]),
                        !.expiry = expiry])

\* mutant: a rollover renews the key it replaces in place as well
key_commit_Renew(p) ==
    /\ sess[p].pc = "key_commit"
    /\ UNCHANGED <<now, wallets, transactions, transfers, probe>>
    /\ LET id == Cardinality(DOMAIN api_keys) + 1
           expires_at == parse_expiry(sess[p].expiry, now) IN
       /\ api_keys' = [k \in DOMAIN api_keys \cup {id} |->
                          IF k = id
                          THEN KeyRow(sess[p].user, sess[p].name, id,
                                      sess[p].permissions, expires_at)
                          ELSE IF sess[p].op = "rollover" /\ k = sess[p].expired_key_id
                          THEN [api_keys[k] EXCEPT !.expires_at = expires_at]
                          ELSE api_keys[k]]
       /\ Set(p, [sess[p] EXCEPT !.pc = "done", !.code = 200, !.detail = "key",
                                 !.new_key = id, !.reported = expires_at])

\* mutant: a rollover marks the key it replaces inactive
key_commit_Supersede(p) ==
    /\ sess[p].pc = "key_commit"
    /\ UNCHANGED <<now, wallets, transactions, transfers, probe>>
    /\ LET id == Cardinality(DOMAIN api_keys) + 1
           expires_at == parse_expiry(sess[p].expiry, now) IN
       /\ api_keys' = [k \in DOMAIN api_keys \cup {id} |->
                          IF k = id
                          THEN KeyRow(sess[p].user, sess[p].name, id,
                                      sess[p].permissions, expires_at)
                          ELSE IF sess[p].op = "rollover" /\ k = sess[p].expired_key_id
                          THEN [api_keys[k] EXCEPT !.is_active = FALSE]
                          ELSE api_keys[k]]
       /\ Set(p, [sess[p] EXCEPT !.pc = "done", !.code = 200, !.detail = "key",
                                 !.new_key = id, !.reported = expires_at])

\* lines 85-115 and 171-201: parse the expiry, generate the key, INSERT, commit
key_commit(p) ==
    /\ sess[p].pc = "key_commit"
    /\ UNCHANGED <<now, wallets, transactions, transfers, probe>>
    /\ LET id == Cardinality(DOMAIN api_keys) + 1
           expires_at == parse_expiry(sess[p].expiry, now) IN
       /\ api_keys' = [k \in DOMAIN api_keys \cup {id} |->
                          IF k = id
                          THEN KeyRow(sess[p].user, sess[p].name, id,
                                      sess[p].permissions, expires_at)
                          ELSE api_keys[k]]
       /\ Set(p, [sess[p] EXCEPT !.pc = "done", !.code = 200, !.detail = "key",
                                 !.new_key = id, !.reported = expires_at])

----------------------------------------------------------------------------
(* The clock *)

Tick ==
    /\ now < MaxTime
    /\ now' = now + TickMinutes
    /\ UNCHANGED <<wallets, transactions, transfers, api_keys, sess, probe>>

----------------------------------------------------------------------------
(* The ledger, one request at a time *)

\* keys the users created before Init (create_api_key at time 0)
SeedKeys ==
    <<KeyRow("u1", "reader", 1, {"read"}, parse_expiry("1D", 0)),
      KeyRow("u2", "payer", 2, {"deposit", "transfer"}, parse_expiry("1M", 0)),
      KeyRow("u2", "old", 3, {"deposit", "transfer", "read"}, parse_expiry("1H", 0))>>
SeedTime == 2 * 60

NoProbe == [required |-> "", authorization |-> NoHeader, x_api_key |-> NoKeyHeader,
            result |-> AuthFail(0, "")]

\* the credentials presented to the ledger's endpoints: a session token, an API
\* key (seeded or unknown), neither, or both
ExpiredToken == create_access_token("u1", now - 2 * ACCESS_TOKEN_EXPIRE_MINUTES)
LedgerCredentials ==
    {<<Bearer(create_access_token(u, now)), NoKeyHeader>> : u \in Users}
    \cup {<<NoHeader, PlainKey(n)>> : n \in 1..(Len(SeedKeys) + 1)}
    \cup {<<NoHeader, NoKeyHeader>>,
          <<Bearer(ExpiredToken), NoKeyHeader>>,
          <<Bearer(ExpiredToken), PlainKey(2)>>,
          <<Bearer(create_access_token("u1", now)), PlainKey(2)>>}

Init ==
    /\ now = SeedTime
    /\ wallets = <<>>
    /\ transactions = <<>>
    /\ transfers = <<>>
    /\ api_keys = SeedKeys
    /\ sess = [p \in {1} |-> Idle]
    /\ probe = NoProbe

\* request bodies of a deposit: kobo as integers, naira as floats (0.4, 1.5 and
\* -1.5 kobo)
DepositPayloads ==
    {Kobo(0 - 1), Kobo(0), Kobo(1), Kobo(2), Naira(4), Naira(15), Naira(0 - 15)}

Deposit ==
    \E p \in Procs, c \in LedgerCredentials, payload \in DepositPayloads,
       reference \in Refs, reply \in ProviderReplies :
        wallet_deposit(p, c[1], c[2], payload, reference, reply)
DepositCommit == \E p \in Procs : deposit_commit(p)
WebhookDelivery ==
    \E p \in Procs, body \in Bodies : \E sig \in Signatures(body) :
        paystack_webhook(p, body, sig)
WebhookSelectWallet == \E p \in Procs : webhook_select_wallet(p)
WebhookCommit == \E p \in Procs : webhook_commit(p)
Balance == \E p \in Procs, c \in LedgerCredentials : get_wallet_balance(p, c[1], c[2])
BalanceCommit == \E p \in Procs : balance_commit(p)
DepositStatus == \E p \in Procs, reference \in Refs \cup {UnknownRef} : get_deposit_status(p, reference)
History == \E p \in Procs, c \in LedgerCredentials : get_transaction_history(p, c[1], c[2])
Transfer ==
    \E p \in Procs, c \in LedgerCredentials,
       wallet_number \in Users \cup {Ghost}, amount \in Amounts \cup {0} :
        wallet_transfer(p, c[1], c[2], wallet_number, amount)
TransferSelectRecipient == \E p \in Procs : transfer_select_recipient(p)
TransferCommit == \E p \in Procs : transfer_commit(p)
TransferFault == \E p \in Procs : transfer_fault(p)
CloseSession == \E p \in Procs : close_session(p)

Next ==
    \/ Deposit
    \/ DepositCommit
    \/ WebhookDelivery
    \/ WebhookSelectWallet
    \/ WebhookCommit
    \/ Balance
    \/ BalanceCommit
    \/ DepositStatus
    \/ History
    \/ Transfer
    \/ TransferSelectRecipient
    \/ TransferCommit
    \/ TransferFault
    \/ CloseSession

Spec == Init /\ [][Next]_vars

----------------------------------------------------------------------------
(* Properties of the ledger, one request at a time *)

\* the balance of a user's wallet, 0 when the user has no wallet
BalanceOf(w, u) == IF u \in DOMAIN w THEN w[u] ELSE 0

\* the signature header is the HMAC of the received body under the webhook secret
SignedByProvider(slot) ==
    slot.signature = <<"hmac_sha512", WebhookSecret,
                       [event |-> slot.event, reference |-> slot.reference]>>

\* C1: every wallet's balance is >= 0 in every state reached by completed
\* ledger operations (deposit initiation, settlement, transfer, balance query).
C1_BalanceNonNegative == \A u \in DOMAIN wallets : wallets[u] >= 0

\* a transfer has completed and has emptied the sender's wallet
C1_Witness ==
    \E p \in Procs :
        /\ sess[p].op = "transfer" /\ sess[p].pc = "done" /\ sess[p].code = 200
        /\ wallets[sess[p].user] = 0
        /\ Len(transfers) > 0

\* C2: a success event credits the transaction's amount to the owner's wallet only
\* when the transaction is PENDING, and then marks it SUCCESS; a success event
\* delivered for a transaction that is no longer PENDING is acknowledged and
\* changes neither a balance nor a transaction; a settled transaction never
\* changes again.  So two deliveries in a row credit exactly once.
C2_SettleOnceStep ==
    \A p \in Procs :
        /\ (sess[p].op = "webhook" /\ wallets' # wallets) =>
            LET r == sess[p].reference
                u == transactions[r].user_id IN
            /\ transactions[r].status = "pending"
            /\ transactions'[r].status = "success"
            /\ wallets'[u] = BalanceOf(wallets, u) + transactions[r].amount
            /\ \A v \in DOMAIN wallets \ {u} : wallets'[v] = wallets[v]
        /\ (/\ sess[p].pc = "idle"
            /\ sess'[p].op = "webhook"
            /\ SignedByProvider(sess'[p])
            /\ sess'[p].event = "charge.success"
            /\ sess'[p].reference \in DOMAIN transactions
            /\ transactions[sess'[p].reference].status # "pending") =>
            /\ sess'[p].pc = "done"
            /\ sess'[p].code = 200
            /\ wallets' = wallets
            /\ transactions' = transactions
        /\ \A r \in DOMAIN transactions :
            transactions[r].status = "success" =>
                r \in DOMAIN transactions' /\ transactions'[r] = transactions[r]
C2_SettleOnce == [][C2_SettleOnceStep]_vars

\* a success event was delivered again for a settled transaction and ignored
C2_Witness ==
    \E p \in Procs :
        /\ sess[p].op = "webhook" /\ sess[p].pc = "done" /\ sess[p].code = 200
        /\ sess[p].event = "charge.success" /\ sess[p].detail = "ignored"
        /\ sess[p].reference \in DOMAIN transactions
        /\ transactions[sess[p].reference].status = "success"
        /\ wallets[transactions[sess[p].reference].user_id] > 0

\* C5: a successful transfer of A from S to R lowers S's balance by A, raises
\* R's balance by A (a recipient without a wallet gets one holding A), keeps the
\* sum of the two, and adds exactly one Transfer row (S, R, A, success).
C5_TransferStep ==
    \A p \in Procs :
        (sess[p].pc = "transfer_commit" /\ sess'[p].pc = "done" /\ sess'[p].code = 200) =>
            LET S == sess[p].user
                R == sess[p].wallet_number
                A == sess[p].amount IN
            /\ S \in DOMAIN wallets /\ S \in DOMAIN wallets' /\ R \in DOMAIN wallets'
            /\ wallets'[S] = wallets[S] - A
            /\ wallets'[R] = BalanceOf(wallets, R) + A
            /\ wallets'[S] + wallets'[R] = wallets[S] + BalanceOf(wallets, R)
            /\ Len(transfers') = Len(transfers) + 1
            /\ SubSeq(transfers', 1, Len(transfers)) = transfers
            /\ LET row == transfers'[Len(transfers')] IN
               /\ row.sender_id = S /\ row.recipient_id = R
               /\ row.amount = A /\ row.status = "success"
C5_TransferConserves == [][C5_TransferStep]_vars

\* a transfer to a known user without a wallet has succeeded
C5_Witness ==
    \E p \in Procs :
        /\ sess[p].op = "transfer" /\ sess[p].pc = "done" /\ sess[p].code = 200
        /\ sess[p].wallet_is_new
        /\ wallets[sess[p].wallet_number] = sess[p].amount
        /\ Len(transfers) = 1

\* the permission each scope-gated endpoint requires
RequiredPermission(op) ==
    CASE op = "deposit" -> "deposit"
      [] op = "transfer" -> "transfer"
      [] op = "balance" -> "read"
      [] op = "history" -> "read"
      [] OTHER -> "none"

\* C9: a request authenticated by API key runs a scope-gated operation only if
\* the operation's scope is in that key's stored permissions; a request refused
\* with 403 presented a key that lacks the scope, ends there and changes no row.
C9_ScopeStep ==
    \A p \in Procs :
        /\ sess'[p].via = "api_key" =>
            /\ sess'[p].key \in DOMAIN api_keys
            /\ RequiredPermission(sess'[p].op) \in api_keys[sess'[p].key].permissions
            /\ sess'[p].user = api_keys[sess'[p].key].user_id
        /\ (sess'[p].code = 403 /\ sess[p].pc = "idle") =>
            /\ sess'[p].pc = "done"
            /\ sess'[p].key \in DOMAIN api_keys
            /\ RequiredPermission(sess'[p].op) \notin api_keys[sess'[p].key].permissions
            /\ <<wallets, transactions, transfers, api_keys>>' =
               <<wallets, transactions, transfers, api_keys>>
C9_ScopeGate == [][C9_ScopeStep]_vars

\* the key with scope {read} only was refused on transfer
C9_Witness ==
    \E p \in Procs :
        /\ sess[p].op = "transfer" /\ sess[p].code = 403
        /\ api_keys[sess[p].key].permissions = {"read"}

\* the key with scope {read} only was accepted on balance
C9_WitnessAccepted ==
    \E p \in Procs :
        /\ sess[p].op = "balance" /\ sess[p].code = 200 /\ sess[p].via = "api_key"
        /\ api_keys[sess[p].key].permissions = {"read"}

----------------------------------------------------------------------------
(* Settlement under concurrent requests: two request slots; u1 has initiated two
   deposits (both PENDING), of 1 and of 2 kobo; nobody has a wallet yet *)

SeedDeposit(reference) ==
    PendingTransaction("u1", IF reference = 1 THEN 1 ELSE 2, reference,
                       authorization_url(reference), 0)

InitSettle ==
    /\ now = 0
    /\ wallets = <<>>
    /\ transactions = [r \in Refs |-> SeedDeposit(r)]
    /\ transfers = <<>>
    /\ api_keys = SeedKeys
    /\ sess = [p \in {1, 2} |-> Idle]
    /\ probe = NoProbe

\* the provider delivers (and redelivers) signed success events
SignedDelivery ==
    \E p \in Procs, reference \in Refs :
        LET body == [event |-> "charge.success", reference |-> reference] IN
        paystack_webhook(p, body, hmac_sha512(WebhookSecret, body))
\* session-token callers read their balance
SessionBalance ==
    \E p \in Procs, u \in Users :
        get_wallet_balance(p, Bearer(create_access_token(u, now)), NoKeyHeader)

NextSettle ==
    \/ SignedDelivery
    \/ WebhookSelectWallet
    \/ WebhookCommit
    \/ SessionBalance
    \/ BalanceCommit
    \/ DepositStatus
    \/ CloseSession
    \/ Tick

SpecSettle == InitSettle /\ [][NextSettle]_vars

----------------------------------------------------------------------------
(* Transfers under concurrent requests: two request slots; u1's deposit of 2 kobo
   is settled, u2 has read its balance (an empty wallet) *)

InitTransfers ==
    /\ now = SeedTime
    /\ wallets = [u \in Users |-> IF u = "u1" THEN 2 ELSE 0]
    /\ transactions = [r \in {2} |-> [SeedDeposit(r) EXCEPT !.status = "success",
                                                             !.paid_at = 0]]
    /\ transfers = <<>>
    /\ api_keys = SeedKeys
    /\ sess = [p \in {1, 2} |-> Idle]
    /\ probe = NoProbe

\* session-token callers transfer to each other
SessionTransfer ==
    \E p \in Procs, u \in Users, wallet_number \in Users, amount \in Amounts :
        wallet_transfer(p, Bearer(create_access_token(u, now)), NoKeyHeader,
                        wallet_number, amount)

NextTransfers ==
    \/ SessionTransfer
    \/ TransferSelectRecipient
    \/ TransferCommit
    \/ CloseSession

SpecTransfers == InitTransfers /\ [][NextTransfers]_vars

----------------------------------------------------------------------------
(* Properties under concurrent requests *)

\* the sum of Pick(row) over the rows of a sequence
SumRows(rows, Pick(_)) ==
    LET Sum[i \in 0..Len(rows)] == IF i = 0 THEN 0 ELSE Sum[i - 1] + Pick(rows[i])
    IN Sum[Len(rows)]

RECURSIVE SumSet(_, _)
\* the sum of amount[r] over a set of references
SumSet(rows, refs) ==
    IF refs = {} THEN 0
    ELSE LET r == CHOOSE r \in refs : TRUE IN rows[r].amount + SumSet(rows, refs \ {r})

\* what the committed rows say a user was paid in, was sent, and has sent
Deposited(u) ==
    SumSet(transactions, {r \in DOMAIN transactions :
                            transactions[r].user_id = u /\ transactions[r].status = "success"})
Received(u) == SumRows(transfers, LAMBDA row : IF row.recipient_id = u THEN row.amount ELSE 0)
Sent(u) == SumRows(transfers, LAMBDA row : IF row.sender_id = u THEN row.amount ELSE 0)

\* C3: of two concurrent deliveries of a success event for one reference, only
\* one credits: a delivery commits a credit only for a transaction that is still
\* PENDING in the committed rows, so the balance rises by the amount exactly once.
C3_ConcurrentSettleOnceStep ==
    \A p \in Procs :
        (sess[p].pc = "webhook_commit" /\ sess'[p].pc = "done" /\ sess'[p].code = 200) =>
            /\ transactions[sess[p].reference].status = "pending"
            /\ wallets'[sess[p].user] =
                    BalanceOf(wallets, sess[p].user) + transactions[sess[p].reference].amount
C3_ConcurrentSettleOnce == [][C3_ConcurrentSettleOnceStep]_vars

\* C4: two concurrent transfers from one wallet behave as one after the other:
\* what a user has sent in successful transfers never exceeds what the user was
\* paid in and was sent, and the balance is what is left.
C4_TransfersSerial ==
    \A u \in Users :
        /\ Sent(u) <= Deposited(u) + Received(u)
        /\ BalanceOf(wallets, u) = Deposited(u) + Received(u) - Sent(u)

\* C6: in every committed state the amount of every SUCCESS deposit has been
\* added to its owner's wallet (no settlement leaves a Transaction SUCCESS with
\* the wallet uncredited): the owner's balance is at least the sum of the
\* owner's SUCCESS deposits (no transfers are made in this specification).
C6_SuccessIsCredited ==
    \A u \in Users : BalanceOf(wallets, u) >= Deposited(u)

----------------------------------------------------------------------------
(* The API keys of the users, one request at a time, as time passes *)

\* u2 has created one key at time 0; u1 has none yet
InitKeys ==
    /\ now = 0
    /\ wallets = <<>>
    /\ transactions = <<>>
    /\ transfers = <<>>
    /\ api_keys = <<KeyRow("u2", "ops", 1, {"deposit", "transfer"}, parse_expiry("1D", 0))>>
    /\ sess = [p \in {1} |-> Idle]
    /\ probe = NoProbe

\* the calls made to /keys/create: who calls, and the body sent
KeyCalls ==
    {[authorization |-> Bearer(create_access_token("u1", now)),
      name |-> "ci", permissions |-> {"read"}, expiry |-> "1H"],
     [authorization |-> Bearer(create_access_token("u1", now)),
      name |-> "bad", permissions |-> {"read", "admin"}, expiry |-> "1H"],
     [authorization |-> Bearer(create_access_token("u2", now)),
      name |-> "ci", permissions |-> {"read"}, expiry |-> "2W"],
     [authorization |-> Bearer(ExpiredToken),
      name |-> "ci", permissions |-> {"read"}, expiry |-> "1H"],
     [authorization |-> NoHeader,
      name |-> "ci", permissions |-> {"read"}, expiry |-> "1H"]}
\* the calls made to /keys/rollover: who calls, and the expiry asked for
RolloverCalls ==
    {[authorization |-> Bearer(create_access_token("u1", now)), expiry |-> "1D"],
     [authorization |-> Bearer(create_access_token("u2", now)), expiry |-> "1D"],
     [authorization |-> Bearer(create_access_token("u1", now)), expiry |-> "2W"],
     [authorization |-> Bearer(ExpiredToken), expiry |-> "1D"]}
\* the key ids a caller can name: every stored one, and one that is not stored
RolloverIds == DOMAIN api_keys \cup {Cardinality(DOMAIN api_keys) + 1}

CreateKey ==
    \E p \in Procs, c \in KeyCalls :
        create_api_key(p, c.authorization, c.name, c.permissions, c.expiry)
RolloverKey ==
    \E p \in Procs, c \in RolloverCalls, id \in RolloverIds :
        rollover_api_key(p, c.authorization, id, c.expiry)
KeyCommit == \E p \in Procs : key_commit(p)

NextKeys ==
    \/ CreateKey
    \/ RolloverKey
    \/ KeyCommit
    \/ Tick
    \/ CloseSession

SpecKeys == InitKeys /\ [][NextKeys]_vars

----------------------------------------------------------------------------
(* Properties of the API keys *)

\* the keys of user u that are active and whose expiry is after t
ActiveUnexpired(keys, u, t) ==
    {k \in DOMAIN keys : keys[k].user_id = u /\ keys[k].is_active /\ keys[k].expires_at > t}

\* a request to /keys/create or /keys/rollover is answered, or moves on, in this step
KeyRequestBegins(p) ==
    /\ sess[p].pc = "idle"
    /\ sess'[p].op \in {"create_key", "rollover"}

\* C7: whatever keys are created and rolled over and however time passes, no
\* user has more than 5 keys that are active with an expiry in the future; a
\* create or a rollover made by a user who has 5 of them already is refused
\* and leaves the table of keys as it was
C7_KeyCeilingStep ==
    /\ \A u \in Users : Cardinality(ActiveUnexpired(api_keys', u, now')) <= 5
    /\ \A p \in Procs :
          (/\ KeyRequestBegins(p)
           /\ sess'[p].user \in Users
           /\ Cardinality(ActiveUnexpired(api_keys, sess'[p].user, now)) = 5)
          => /\ sess'[p].pc = "done"
             /\ sess'[p].code \in 400..499
             /\ sess'[p].new_key = 0
             /\ api_keys' = api_keys
C7_KeyCeiling == [][C7_KeyCeilingStep]_vars

\* a sixth create of a user who has five live keys has been refused
C7_Witness ==
    \E p \in Procs :
        /\ sess[p].pc = "done" /\ sess[p].op = "create_key"
        /\ sess[p].code = 400 /\ sess[p].detail = "Maximum of 5 active API keys"
        /\ Cardinality(ActiveUnexpired(api_keys, sess[p].user, now)) = 5
\* a rollover of an expired key of a user who has five live keys has been refused
C7_WitnessRollover ==
    \E p \in Procs :
        /\ sess[p].pc = "done" /\ sess[p].op = "rollover"
        /\ sess[p].code = 400 /\ sess[p].detail = "Maximum of 5 active API keys"
        /\ Cardinality(ActiveUnexpired(api_keys, sess[p].user, now)) = 5

\* a well-formed rollover request of an authenticated caller on one of the
\* caller's own keys begins in this step
RolloverOfOwnKey(p) ==
    /\ sess[p].pc = "idle"
    /\ sess'[p].op = "rollover"
    /\ sess'[p].user \in Users
    /\ sess'[p].expiry \in {"1H", "1D", "1M", "1Y"}
    /\ sess'[p].expired_key_id \in DOMAIN api_keys
    /\ api_keys[sess'[p].expired_key_id].user_id = sess'[p].user

RolloverRefusedNotExpired(p) ==
    /\ sess'[p].pc = "done"
    /\ sess'[p].code = 400
    /\ sess'[p].detail = "API key is not expired yet"
    /\ api_keys' = api_keys

\* the rollover's INSERT: one row is added, for the caller, with the replaced
\* key's label and scopes and an expiry in the future; no stored row changes
RolloverInserted(p) ==
    LET old == api_keys[sess[p].expired_key_id]
        id == sess'[p].new_key IN
    /\ sess'[p].pc = "done" /\ sess'[p].code = 200
    /\ DOMAIN api_keys' = DOMAIN api_keys \cup {id}
    /\ id \notin DOMAIN api_keys
    /\ \A k \in DOMAIN api_keys : api_keys'[k] = api_keys[k]
    /\ api_keys'[id].user_id = sess[p].user
    /\ api_keys'[id].permissions = old.permissions
    /\ api_keys'[id].name = old.name
    /\ api_keys'[id].is_active
    /\ api_keys'[id].expires_at > now
    /\ api_keys'[id].key_hash # old.key_hash

\* C8 as stated: a rollover on a key whose expiry is in the future is refused
\* as not expired and creates no key; a rollover on an expired key of the
\* caller goes on to insert a key with the old key's scopes and label
C8_RolloverAsStatedStep ==
    \A p \in Procs :
        /\ RolloverOfOwnKey(p) =>
              LET old == api_keys[sess'[p].expired_key_id] IN
              /\ old.expires_at > now => RolloverRefusedNotExpired(p)
              /\ old.expires_at < now => sess'[p].pc = "key_commit"
        /\ (sess[p].pc = "key_commit" /\ sess[p].op = "rollover" /\ sess'[p] # sess[p])
              => RolloverInserted(p)
C8_RolloverAsStated == [][C8_RolloverAsStatedStep]_vars

\* C8 (amended): a rollover on a key whose expiry is in the future is refused
\* as not expired and creates no key; a rollover on a key of the caller whose
\* expiry is not in the future inserts a key with the old key's scopes and
\* label when the caller has fewer than 5 live keys, and is refused with the
\* key-limit error, creating no key, when the caller has 5
C8_RolloverStep ==
    \A p \in Procs :
        /\ RolloverOfOwnKey(p) =>
              LET old == api_keys[sess'[p].expired_key_id]
                  live == Cardinality(ActiveUnexpired(api_keys, sess'[p].user, now)) IN
              /\ old.expires_at > now => RolloverRefusedNotExpired(p)
              /\ (old.expires_at <= now /\ live < 5) =>
                    /\ sess'[p].pc = "key_commit"
                    /\ api_keys' = api_keys
              /\ (old.expires_at <= now /\ live >= 5) =>
                    /\ sess'[p].pc = "done"
                    /\ sess'[p].code = 400
                    /\ sess'[p].detail = "Maximum of 5 active API keys"
                    /\ api_keys' = api_keys
        /\ (sess[p].pc = "key_commit" /\ sess[p].op = "rollover" /\ sess'[p] # sess[p])
              => RolloverInserted(p)
C8_Rollover == [][C8_RolloverStep]_vars

\* a rollover has inserted a key that carries the label and scopes of the
\* expired key it replaces
C8_Witness ==
    \E p \in Procs :
        /\ sess[p].pc = "done" /\ sess[p].op = "rollover" /\ sess[p].code = 200
        /\ sess[p].new_key \in DOMAIN api_keys
        /\ api_keys[sess[p].expired_key_id].expires_at <= now
        /\ api_keys[sess[p].new_key].permissions
              = api_keys[sess[p].expired_key_id].permissions
        /\ api_keys[sess[p].new_key].name = api_keys[sess[p].expired_key_id].name
\* a rollover on a key that has not expired has been refused
C8_WitnessNotExpired ==
    \E p \in Procs :
        /\ sess[p].pc = "done" /\ sess[p].op = "rollover" /\ sess[p].code = 400
        /\ sess[p].detail = "API key is not expired yet"
        /\ sess[p].expired_key_id \in DOMAIN api_keys
        /\ api_keys[sess[p].expired_key_id].expires_at > now

----------------------------------------------------------------------------
(* The resolution of credentials, applied to every pair of headers *)

InitAuth == Init

\* permission_checker is called with a required permission and the two headers
AuthProbe ==
    /\ \E required \in Scopes, authorization \in AuthHeaders, x_api_key \in KeyHeaders :
          probe' = [required |-> required, authorization |-> authorization,
                    x_api_key |-> x_api_key,
                    result |-> require_permission(required, authorization, x_api_key,
                                                  api_keys, now)]
    /\ UNCHANGED <<now, wallets, transactions, transfers, api_keys, sess>>

\* get_current_user is called with the authorization header (the endpoints
\* under /keys take no API key)
SessionProbe ==
    /\ \E authorization \in AuthHeaders, e \in HTTPBearerErrors :
          probe' = [required |-> "session", authorization |-> authorization,
                    x_api_key |-> NoKeyHeader,
                    result |-> get_current_user(authorization, now, e)]
    /\ UNCHANGED <<now, wallets, transactions, transfers, api_keys, sess>>

NextAuth ==
    \/ AuthProbe
    \/ SessionProbe

SpecAuth == InitAuth /\ [][NextAuth]_vars

\* the header carries a token signed with the application's secret, not past
\* its exp claim, whose subject is a stored user
VerifiedBearer(authorization, t) ==
    /\ authorization.scheme = "Bearer"
    /\ authorization.token.form = "jwt"
    /\ authorization.token.key = AppSecret
    /\ authorization.token.exp >= t
    /\ authorization.token.sub \in Users

\* C10: when the authorization header carries a bearer token that verifies and
\* whose subject is a stored user, the caller is resolved as that user through
\* the token, for every required scope and whatever the API-key header holds:
\* no key is consulted and the outcome is the same as with no key at all
C10_BearerPrecedence ==
    (probe # NoProbe /\ VerifiedBearer(probe.authorization, now)) =>
        /\ probe.result.code = 200
        /\ probe.result.user = probe.authorization.token.sub
        /\ probe.result.via = "jwt"
        /\ probe.result.key = 0
        /\ probe.result = require_permission(probe.required, probe.authorization,
                                             NoKeyHeader, api_keys, now)

\* a verified token of u1 was presented together with u2's expired key for a
\* scope that key would not open
C10_Witness ==
    /\ VerifiedBearer(probe.authorization, now)
    /\ probe.authorization.token.sub = "u1"
    /\ probe.required = "transfer"
    /\ \E k \in DOMAIN api_keys :
          /\ probe.x_api_key = PlainKey(k)
          /\ api_keys[k].user_id = "u2"
          /\ api_keys[k].expires_at < now
    /\ probe.result.code = 200
    /\ probe.result.user = "u1"

\* C11: a request with no API key whose bearer token is absent, malformed,
\* mis-signed, expired or names no stored user is refused as unauthenticated
\* (401), with one and the same response whichever of these cases it is
C11_UnauthenticatedUniform ==
    (/\ probe # NoProbe
     /\ probe.x_api_key = NoKeyHeader
     /\ ~VerifiedBearer(probe.authorization, now)) =>
        /\ probe.result.code = 401
        /\ probe.result.user = NoUser
        /\ probe.result.detail =
              IF probe.required = "session" THEN "Could not validate credentials"
              ELSE "Authentication required"

\* the part of C11 that holds: on the scope-gated endpoints (permission_checker)
\* each of the cases is answered 401 "Authentication required"
C11_ScopeGatedUniform ==
    (/\ probe # NoProbe
     /\ probe.required \in Scopes
     /\ probe.x_api_key = NoKeyHeader
     /\ ~VerifiedBearer(probe.authorization, now)) =>
        probe.result = AuthFail(401, "Authentication required")

----------------------------------------------------------------------------
(* Properties of the webhook and of deposit initiation, one request at a time *)

\* a webhook delivery is received in this step
WebhookReceived(p) == sess[p].pc = "idle" /\ sess'[p].op = "webhook"

\* C12: a webhook delivery whose signature header is missing, or is not the
\* HMAC of the received body under the webhook secret, is refused with 400
\* (missing / invalid signature) and changes no transaction and no wallet,
\* whatever event and reference its body names
C12_InvalidSignatureStep ==
    \A p \in Procs :
        (WebhookReceived(p) /\ ~SignedByProvider(sess'[p])) =>
            /\ sess'[p].pc = "done"
            /\ sess'[p].code = 400
            /\ sess'[p].detail \in {"Missing Paystack signature", "Invalid signature"}
            /\ transactions' = transactions
            /\ wallets' = wallets
C13_StatusOnceStep ==
    /\ \A r \in DOMAIN transactions' \ DOMAIN transactions :
          transactions'[r].status = "pending"
    /\ \A r \in DOMAIN transactions :
          /\ r \in DOMAIN transactions'
          /\ transactions[r].status \in {"success", "failed"} =>
                /\ transactions'[r].status = transactions[r].status
                /\ transactions'[r].paid_at = transactions[r].paid_at
          /\ transactions'[r].status # transactions[r].status =>
                /\ transactions[r].status = "pending"
                /\ transactions'[r].status \in {"success", "failed"}
                /\ \E p \in Procs : /\ sess[p].op = "webhook"
                                    /\ sess[p].reference = r
                                    /\ sess'[p].pc = "done"
C13_StatusOnce == [][C13_StatusOnceStep]_vars

\* C14: a validly signed charge.failed event for a reference whose transaction
\* is PENDING leaves that transaction FAILED and every wallet balance as it was
\* when its request ends; a webhook never changes a wallet for a transaction
\* that is FAILED
C14_FailedEventStep ==
    \A p \in Procs :
        /\ (/\ sess'[p].op = "webhook" /\ sess'[p].pc = "done" /\ sess[p].pc # "done"
            /\ sess'[p].event = "charge.failed"
            /\ SignedByProvider(sess'[p])
            /\ sess'[p].reference \in DOMAIN transactions
            /\ transactions[sess'[p].reference].status = "pending") =>
              /\ transactions'[sess'[p].reference].status = "failed"
              /\ wallets' = wallets
        /\ (/\ sess[p].op = "webhook"
            /\ sess[p].reference \in DOMAIN transactions
            /\ transactions[sess[p].reference].status = "failed") =>
              wallets' = wallets
C14_FailedEvent == [][C14_FailedEventStep]_vars

\* C15: a validly signed webhook whose reference matches no transaction, whose
\* transaction is already SUCCESS or FAILED, or whose event is neither
\* charge.success nor charge.failed is acknowledged with 200 and leaves every
\* transaction and every wallet unchanged
C15_IgnoredEventStep ==
    \A p \in Procs :
        (/\ WebhookReceived(p)
         /\ SignedByProvider(sess'[p])
         /\ \/ sess'[p].reference \notin DOMAIN transactions
            \/ transactions[sess'[p].reference].status \in {"success", "failed"}
            \/ sess'[p].event \notin {"charge.success", "charge.failed"}) =>
            /\ sess'[p].pc = "done"
            /\ sess'[p].code = 200
            /\ transactions' = transactions
            /\ wallets' = wallets
C15_IgnoredEvent == [][C15_IgnoredEventStep]_vars

\* a signed event of another type, naming a PENDING transaction, was acknowledged
\* and the transaction is still PENDING
C15_Witness ==
    \E p \in Procs :
        /\ sess[p].op = "webhook" /\ sess[p].pc = "done" /\ sess[p].code = 200
        /\ sess[p].event = "transfer.success"
        /\ SignedByProvider(sess[p])
        /\ sess[p].reference \in DOMAIN transactions
        /\ transactions[sess[p].reference].status = "pending"
\* a signed success event naming no stored transaction was acknowledged
C15_WitnessUnknown ==
    \E p \in Procs :
        /\ sess[p].op = "webhook" /\ sess[p].pc = "done" /\ sess[p].code = 200
        /\ sess[p].event = "charge.success"
        /\ SignedByProvider(sess[p])
        /\ sess[p].reference = UnknownRef

----------------------------------------------------------------------------
(* Properties of transfers, one request at a time *)

RECURSIVE SumBalances(_, _)
\* the total of the balances of a set of wallets
SumBalances(w, users) ==
    IF users = {} THEN 0
    ELSE LET u == CHOOSE u \in users : TRUE IN w[u] + SumBalances(w, users \ {u})
TotalBalance(w) == SumBalances(w, DOMAIN w)

\* C16: the debit, the credit and the Transfer row of a transfer are committed
\* in one step or not at all: a transfer request that ends in an error after it
\* has debited the sender's wallet object leaves every committed balance and the
\* transfers as they were; no transfer step reduces the total of the balances;
\* a wallet changes in a transfer step exactly when a Transfer row is added
C16_TransferAtomicStep ==
    \A p \in Procs :
        sess[p].op = "transfer" =>
            /\ (sess[p].pc = "transfer_commit" /\ sess'[p].code # 200) =>
                  /\ wallets' = wallets
                  /\ transfers' = transfers
            /\ (sess'[p] # sess[p]) =>
                  /\ TotalBalance(wallets') = TotalBalance(wallets)
                  /\ (wallets' # wallets) <=> (Len(transfers') = Len(transfers) + 1)
C16_TransferAtomic == [][C16_TransferAtomicStep]_vars

\* a transfer failed after the debit was made on the wallet object: the
\* committed balance of the sender is still the one before the debit
C16_Witness ==
    \E p \in Procs :
        /\ sess[p].op = "transfer" /\ sess[p].pc = "done" /\ sess[p].code = 500
        /\ sess[p].user \in DOMAIN wallets
        /\ wallets[sess[p].user] = sess[p].sender_wallet + sess[p].amount
        /\ sess[p].amount > 0
        /\ Len(transfers) = 0

\* the refusals of a transfer that C17 names
TransferRefusals ==
    {<<400, "Cannot transfer to your own wallet">>,
     <<400, "Sender wallet not found">>,
     <<400, "Insufficient balance">>,
     <<404, "Recipient wallet not found">>}

\* C17: a transfer refused as a self-transfer, for a missing sender wallet, for
\* an insufficient balance or for an unknown recipient changes no balance,
\* creates no wallet and adds no Transfer row; the insufficient-balance refusal
\* reports the sender's balance as committed at that moment
C17_RefusedTransferStep ==
    \A p \in Procs :
        (/\ sess[p].pc # "done"
         /\ sess'[p].pc = "done"
         /\ sess'[p].op = "transfer"
         /\ <<sess'[p].code, sess'[p].detail>> \in TransferRefusals) =>
            /\ wallets' = wallets
            /\ transfers' = transfers
            /\ sess'[p].detail = "Insufficient balance" =>
                  /\ sess'[p].user \in DOMAIN wallets
                  /\ sess'[p].reported = wallets[sess'[p].user]
                  /\ sess'[p].reported < sess'[p].amount
            /\ sess'[p].detail = "Sender wallet not found" =>
                  sess'[p].user \notin DOMAIN wallets
            /\ sess'[p].detail = "Cannot transfer to your own wallet" =>
                  sess'[p].wallet_number = sess'[p].user
            /\ sess'[p].detail = "Recipient wallet not found" =>
                  sess'[p].wallet_number \notin Users
C17_RefusedTransfer == [][C17_RefusedTransferStep]_vars

\* a sender holding a positive balance was refused a larger transfer and was
\* told that balance
C17_Witness ==
    \E p \in Procs :
        /\ sess[p].op = "transfer" /\ sess[p].pc = "done"
        /\ sess[p].code = 400 /\ sess[p].detail = "Insufficient balance"
        /\ sess[p].reported > 0
        /\ sess[p].reported = wallets[sess[p].user]
        /\ sess[p].amount > sess[p].reported

\* a transfer to an identifier that is no user's was refused
C17_WitnessRecipient ==
    \E p \in Procs :
        /\ sess[p].op = "transfer" /\ sess[p].pc = "done"
        /\ sess[p].code = 404 /\ sess[p].wallet_number = Ghost
        /\ sess[p].wallet_number \notin DOMAIN wallets

\* C18: a transfer is committed only when its amount is positive, its
\* recipient is not the sender, the sender has a wallet holding at least the
\* amount and the recipient is a known user; an authorised call with a
\* non-positive amount is refused by the request schema (422), and one with a
\* positive amount to the caller's own id is refused as a self-transfer (400)
C18_TransferGuardsStep ==
    \A p \in Procs :
        /\ (/\ sess[p].pc = "transfer_commit"
            /\ sess'[p].pc = "done"
            /\ sess'[p].code = 200) =>
              /\ sess[p].amount > 0
              /\ sess[p].wallet_number # sess[p].user
              /\ sess[p].user \in DOMAIN wallets
              /\ wallets[sess[p].user] >= sess[p].amount
              /\ sess[p].wallet_number \in Users
        /\ (/\ sess[p].pc = "idle"
            /\ sess'[p].op = "transfer"
            /\ sess'[p].user # NoUser) =>
              /\ sess'[p].amount <= 0 =>
                    /\ sess'[p].pc = "done"
                    /\ sess'[p].code = 422
              /\ (sess'[p].amount > 0 /\ sess'[p].wallet_number = sess'[p].user) =>
                    /\ sess'[p].pc = "done"
                    /\ sess'[p].code = 400
                    /\ sess'[p].detail = "Cannot transfer to your own wallet"
C18_TransferGuards == [][C18_TransferGuardsStep]_vars

\* a sender holding a balance was refused a transfer to their own id; the
\* same sender had a transfer to another user committed
C18_Witness ==
    \E p \in Procs :
        /\ sess[p].op = "transfer" /\ sess[p].pc = "done"
        /\ sess[p].code = 400 /\ sess[p].detail = "Cannot transfer to your own wallet"
        /\ sess[p].user \in DOMAIN wallets
        /\ wallets[sess[p].user] >= sess[p].amount
        /\ \E i \in 1..Len(transfers) : transfers[i].sender_id = sess[p].user

\* an authorised transfer of a non-positive amount was refused
C18_WitnessAmount ==
    \E p \in Procs :
        /\ sess[p].op = "transfer" /\ sess[p].pc = "done"
        /\ sess[p].code = 422 /\ sess[p].amount <= 0
        /\ sess[p].user \in DOMAIN wallets

----------------------------------------------------------------------------
(* Properties of deposit initiation, one request at a time *)

\* C19: a Transaction row is inserted only by a deposit whose call to the
\* provider ended in a success body carrying the authorization URL, and the row
\* is PENDING with that URL; a deposit whose call timed out, raised, or was
\* answered with a non-success response fails (402 or 500) and no Transaction
\* has its reference; every PENDING Transaction carries the provider's URL
C19_PersistAfterProviderStep ==
    /\ \A r \in DOMAIN transactions' \ DOMAIN transactions :
          \E p \in Procs :
              /\ sess[p].op = "deposit" /\ sess[p].pc = "deposit_commit"
              /\ sess[p].reference = r
              /\ sess[p].reply = "ok"
              /\ sess'[p].pc = "done" /\ sess'[p].code = 201
              /\ transactions'[r].status = "pending"
              /\ transactions'[r].authorization_url = sess[p].authorization_url
              /\ transactions'[r].authorization_url = authorization_url(r)
    /\ \A p \in Procs :
          (/\ sess[p].pc = "idle"
           /\ sess'[p].op = "deposit"
           /\ sess'[p].reply \notin {"none", "ok"}) =>
              /\ sess'[p].pc = "done"
              /\ sess'[p].code \in {402, 500}
              /\ transactions' = transactions
              /\ sess'[p].reference \notin DOMAIN transactions'
    /\ \A r \in DOMAIN transactions' :
          transactions'[r].status = "pending" =>
              transactions'[r].authorization_url # NoUrl
C19_PersistAfterProvider == [][C19_PersistAfterProviderStep]_vars

\* the provider call of a deposit timed out: the request failed and no
\* Transaction has the reference it had drawn
C19_Witness ==
    \E p \in Procs :
        /\ sess[p].op = "deposit" /\ sess[p].pc = "done"
        /\ sess[p].reply = "timeout" /\ sess[p].code = 500
        /\ sess[p].amount > 0
        /\ sess[p].reference \notin DOMAIN transactions

\* a deposit was persisted after the provider's success reply
C19_WitnessPersisted ==
    \E p \in Procs :
        /\ sess[p].op = "deposit" /\ sess[p].pc = "done"
        /\ sess[p].reply = "ok" /\ sess[p].code = 201
        /\ sess[p].reference \in DOMAIN transactions
        /\ transactions[sess[p].reference].authorization_url
              = authorization_url(sess[p].reference)

\* C20: an authorised deposit of a positive amount whose reference already
\* names a Transaction is answered with that Transaction's reference and
\* authorization URL, without a call to the provider and without a change to
\* the transactions; no insert ever lands on a reference that is taken, so a
\* reference names one Transaction, the one first stored under it
C20_ExistingReferenceStep ==
    /\ \A p \in Procs :
          (/\ sess[p].pc = "idle"
           /\ sess'[p].op = "deposit"
           /\ sess'[p].user # NoUser
           /\ sess'[p].amount > 0
           /\ sess'[p].reference \in DOMAIN transactions) =>
              /\ sess'[p].pc = "done"
              /\ sess'[p].code = 201
              /\ sess'[p].authorization_url =
                    transactions[sess'[p].reference].authorization_url
              /\ sess'[p].reply = "none"
              /\ transactions' = transactions
    /\ \A r \in DOMAIN transactions :
          /\ r \in DOMAIN transactions'
          /\ transactions'[r].user_id = transactions[r].user_id
          /\ transactions'[r].amount = transactions[r].amount
          /\ transactions'[r].authorization_url = transactions[r].authorization_url
          /\ transactions'[r].created_at = transactions[r].created_at
C20_ExistingReference == [][C20_ExistingReferenceStep]_vars

\* a deposit drew the reference of another user's Transaction of another
\* amount and was answered with that Transaction's URL; the row is as it was
C20_Witness ==
    \E p \in Procs :
        /\ sess[p].op = "deposit" /\ sess[p].pc = "done"
        /\ sess[p].code = 201 /\ sess[p].detail = "existing"
        /\ sess[p].reply = "none"
        /\ sess[p].reference \in DOMAIN transactions
        /\ sess[p].authorization_url = transactions[sess[p].reference].authorization_url
        /\ transactions[sess[p].reference].user_id # sess[p].user
        /\ transactions[sess[p].reference].amount # sess[p].amount

\* C21: a deposit whose body names an amount that is zero or negative is
\* refused with a client error (401 or 403 when the caller is not authorised,
\* 422 otherwise); the provider is not called and the transactions are unchanged
C21_InvalidAmountStep ==
    \A p \in Procs :
        (/\ sess[p].pc = "idle"
         /\ sess'[p].op = "deposit"
         /\ sess'[p].payload[2] <= 0) =>
            /\ sess'[p].pc = "done"
            /\ sess'[p].code \in {401, 403, 422}
            /\ sess'[p].user # NoUser => sess'[p].code = 422
            /\ sess'[p].reply = "none"
            /\ transactions' = transactions
----------------------------------------------------------------------------
(* The history of a ledger that moves in time: one request slot; u1 has
   initiated two deposits at time 0, the provider settles them, u1 and u2
   transfer to each other and read their histories as the clock advances *)

InitHistory ==
    /\ now = 0
    /\ wallets = <<>>
    /\ transactions = [r \in Refs |-> SeedDeposit(r)]
    /\ transfers = <<>>
    /\ api_keys = SeedKeys
    /\ sess = [p \in {1} |-> Idle]
    /\ probe = NoProbe

\* session-token callers read their history
SessionHistory ==
    \E p \in Procs, u \in Users :
        get_transaction_history(p, Bearer(create_access_token(u, now)), NoKeyHeader)

NextHistory ==
    \/ SignedDelivery
    \/ WebhookSelectWallet
    \/ WebhookCommit
    \/ SessionTransfer
    \/ TransferSelectRecipient
    \/ TransferCommit
    \/ SessionHistory
    \/ CloseSession
    \/ Tick

SpecHistory == InitHistory /\ [][NextHistory]_vars

\* how many positions of the list h hold the item x
Occurrences(h, x) == Cardinality({k \in DOMAIN h : h[k] = x})

\* C22: the history answered to a user lists, once each, the user's own SUCCESS
\* deposits (amount, "success", settlement time) and the transfers the user
\* sent (amount, "success", creation time) and nothing else: no PENDING deposit,
\* no received transfer, no entry of another user; the list is in descending
\* order of timestamp; answering it changes nothing
C22_HistoryStep ==
    \A p \in Procs :
        (/\ sess[p].pc = "idle"
         /\ sess'[p].op = "history"
         /\ sess'[p].code = 200) =>
            LET u == sess'[p].user
                h == sess'[p].history
                own == {r \in DOMAIN transactions :
                           transactions[r].user_id = u /\ transactions[r].status = "success"}
                sent == {i \in DOMAIN transfers : transfers[i].sender_id = u}
                deposit(r) == [type |-> "deposit", amount |-> transactions[r].amount,
                               status |-> "success", timestamp |-> transactions[r].paid_at]
                transfer(i) == [type |-> "transfer", amount |-> transfers[i].amount,
                                status |-> "success", timestamp |-> transfers[i].created_at]
            IN
            /\ UNCHANGED <<now, wallets, transactions, transfers, api_keys>>
            /\ Len(h) = Cardinality(own) + Cardinality(sent)
            /\ \A k \in DOMAIN h :
                  Occurrences(h, h[k]) =
                      Cardinality({r \in own : deposit(r) = h[k]})
                      + Cardinality({i \in sent : transfer(i) = h[k]})
            /\ \A k, l \in DOMAIN h : k < l => h[k].timestamp >= h[l].timestamp
C22_History == [][C22_HistoryStep]_vars

\* the scenario: u1, who had no wallet, had one deposit of 2 settled by a signed
\* success event; the balance is 2 and the history is that one deposit
C22_Witness ==
    \E p \in Procs :
        /\ sess[p].op = "history" /\ sess[p].pc = "done" /\ sess[p].code = 200
        /\ sess[p].user = "u1"
        /\ Len(transfers) = 0
        /\ "u1" \in DOMAIN wallets /\ wallets["u1"] = 2
        /\ transactions[1].status = "pending"
        /\ sess[p].history =
              <<[type |-> "deposit", amount |-> 2, status |-> "success",
                 timestamp |-> transactions[2].paid_at]>>

\* a history of three entries made at three different times, while the user
\* has also received a transfer
C22_WitnessOrdered ==
    \E p \in Procs :
        /\ sess[p].op = "history" /\ sess[p].pc = "done" /\ sess[p].code = 200
        /\ Len(sess[p].history) = 3
        /\ sess[p].history[1].timestamp > sess[p].history[2].timestamp
        /\ sess[p].history[2].timestamp > sess[p].history[3].timestamp
        /\ \E i \in DOMAIN transfers : transfers[i].recipient_id = sess[p].user

----------------------------------------------------------------------------
(* Properties of wallets under concurrent requests *)

\* C23: a user has at most one wallet (the wallets are keyed by user, as the
\* unique constraint on wallets.user_id keeps them), and a settlement that
\* found no wallet for the owner and set out to create one still commits its
\* credit when another request has created the wallet in the meantime: it is
\* acknowledged and the owner's balance rises by the amount
C23_LazyWalletStep ==
    \A p \in Procs :
        (/\ sess[p].op = "webhook"
         /\ sess[p].pc = "webhook_commit"
         /\ sess[p].wallet_is_new
         /\ sess'[p].pc = "done") =>
            /\ sess'[p].code = 200
            /\ sess[p].user \in DOMAIN wallets'
            /\ wallets'[sess[p].user] = BalanceOf(wallets, sess[p].user) + sess[p].amount
            /\ transactions'[sess[p].reference].status = "success"
C23_LazyWallet == [][C23_LazyWalletStep]_vars

\* A settlement and a transfer in flight together: slot 1 serves the provider's
\* deliveries, slot 2 the users' transfers, so two requests of the same kind
\* never overlap.  u1 holds 2 (the settled deposit 2) and has deposit 1 PENDING;
\* u2 has an empty wallet.
InitMixed ==
    /\ now = SeedTime
    /\ wallets = [u \in Users |-> IF u = "u1" THEN 2 ELSE 0]
    /\ transactions = [r \in Refs |->
                          IF r = 2 THEN [SeedDeposit(r) EXCEPT !.status = "success",
                                                               !.paid_at = 0]
                          ELSE SeedDeposit(r)]
    /\ transfers = <<>>
    /\ api_keys = SeedKeys
    /\ sess = [p \in {1, 2} |-> Idle]
    /\ probe = NoProbe

DeliveryInSlot1 ==
    \E reference \in Refs :
        LET body == [event |-> "charge.success", reference |-> reference] IN
        paystack_webhook(1, body, hmac_sha512(WebhookSecret, body))
TransferInSlot2 ==
    \E u \in Users, wallet_number \in Users, amount \in Amounts :
        wallet_transfer(2, Bearer(create_access_token(u, now)), NoKeyHeader,
                        wallet_number, amount)

NextMixed ==
    \/ DeliveryInSlot1
    \/ WebhookSelectWallet
    \/ WebhookCommit
    \/ TransferInSlot2
    \/ TransferSelectRecipient
    \/ TransferCommit
    \/ CloseSession

SpecMixed == InitMixed /\ [][NextMixed]_vars

\* C24: when a settlement's credit and a transfer's debit or credit touch one
\* wallet concurrently, the committed balance is what the two give one after
\* the other: every committed balance is the user's SUCCESS deposits plus the
\* transfers received minus the transfers sent
C24_NoLostUpdate ==
    \A u \in DOMAIN wallets : wallets[u] + Sent(u) = Deposited(u) + Received(u)

----------------------------------------------------------------------------
(* Every endpoint on a ledger that holds money: one request slot; u1 holds 2,
   the settled deposit 2; u2 has no wallet yet; the users hold the seeded keys *)

InitFrame ==
    /\ now = SeedTime
    /\ wallets = [u \in {"u1"} |-> 2]
    /\ transactions = [r \in {2} |-> [SeedDeposit(r) EXCEPT !.status = "success",
                                                             !.paid_at = 0]]
    /\ transfers = <<>>
    /\ api_keys = SeedKeys
    /\ sess = [p \in {1} |-> Idle]
    /\ probe = NoProbe

\* session-token callers initiate deposits; u1 creates keys, u2 rolls keys over
SessionDeposit ==
    \E p \in Procs, u \in Users, payload \in {Kobo(0), Kobo(1)},
       reference \in Refs, reply \in {"ok", "timeout"} :
        wallet_deposit(p, Bearer(create_access_token(u, now)), NoKeyHeader,
                       payload, reference, reply)
SessionCreateKey ==
    \E p \in Procs :
        create_api_key(p, Bearer(create_access_token("u1", now)), "ci", {"read"}, "1H")
SessionRollover ==
    \E p \in Procs, expired_key_id \in RolloverIds :
        rollover_api_key(p, Bearer(create_access_token("u2", now)), expired_key_id, "1D")

NextFrame ==
    \/ SessionDeposit
    \/ DepositCommit
    \/ SignedDelivery
    \/ WebhookSelectWallet
    \/ WebhookCommit
    \/ SessionBalance
    \/ BalanceCommit
    \/ DepositStatus
    \/ SessionHistory
    \/ SessionTransfer
    \/ TransferSelectRecipient
    \/ TransferCommit
    \/ TransferFault
    \/ SessionCreateKey
    \/ SessionRollover
    \/ KeyCommit
    \/ CloseSession

SpecFrame == InitFrame /\ [][NextFrame]_vars

\* the operation of the request that takes a step in slot p
StepOp(p) == IF sess[p].pc = "idle" THEN sess'[p].op ELSE sess[p].op

\* the step settles a PENDING deposit of u: SUCCESS, and the amount is added
Settles(p, u) ==
    /\ sess[p].pc = "webhook_commit" /\ sess[p].user = u
    /\ transactions[sess[p].reference].status = "pending"
    /\ transactions'[sess[p].reference].status = "success"
    /\ wallets'[u] = BalanceOf(wallets, u) + transactions[sess[p].reference].amount
\* the step commits a transfer that u sends
Debits(p, u) ==
    /\ sess[p].pc = "transfer_commit" /\ sess'[p].code = 200 /\ sess[p].user = u
    /\ wallets'[u] = BalanceOf(wallets, u) - sess[p].amount
\* the step commits a transfer that u receives
Credits(p, u) ==
    /\ sess[p].pc = "transfer_commit" /\ sess'[p].code = 200 /\ sess[p].wallet_number = u
    /\ wallets'[u] = BalanceOf(wallets, u) + sess[p].amount

\* C25: a balance changes only in a settlement that moves a PENDING deposit to
\* SUCCESS, in the debit of a committed outgoing transfer and in the credit of a
\* committed incoming transfer; a wallet once created stays; a wallet created
\* by a balance query holds 0; deposit initiation, status query, balance query,
\* history, key creation and rollover leave every existing balance as it was
C25_BalanceFrameStep ==
    /\ \A u \in DOMAIN wallets' :
          BalanceOf(wallets', u) # BalanceOf(wallets, u) =>
              \E p \in Procs : Settles(p, u) \/ Debits(p, u) \/ Credits(p, u)
    /\ DOMAIN wallets \subseteq DOMAIN wallets'
    /\ \A p \in Procs :
          (/\ sess'[p] # sess[p]
           /\ StepOp(p) \in {"deposit", "status", "balance", "history",
                             "create_key", "rollover"}) =>
              \A u \in DOMAIN wallets : wallets'[u] = wallets[u]
C25_BalanceFrame == [][C25_BalanceFrameStep]_vars

\* while u1 holds money, u1 has created a key and u2's first balance query has
\* created a wallet holding 0
C25_Witness ==
    \E p \in Procs :
        /\ sess[p].op = "balance" /\ sess[p].pc = "done" /\ sess[p].code = 200
        /\ sess[p].wallet_is_new /\ sess[p].user = "u2"
        /\ wallets["u2"] = 0
        /\ wallets["u1"] > 0
        /\ \E k \in DOMAIN api_keys : api_keys[k].name = "ci" /\ api_keys[k].user_id = "u1"
        /\ \E r \in DOMAIN transactions : transactions[r].status = "pending"

----------------------------------------------------------------------------
(* The authentication of API keys as time passes.  The first state holds one
   key of u1 and one of u2, created at time 0; either may have been revoked
   (is_active set to false in the table: no endpoint does it).  u2 rolls
   expired keys over. *)

InitKeyAuth ==
    /\ now = 0
    /\ wallets = <<>>
    /\ transactions = <<>>
    /\ transfers = <<>>
    /\ api_keys \in
          {<<[KeyRow("u1", "reader", 1, {"read"}, parse_expiry("1H", 0))
                  EXCEPT !.is_active = a1],
             [KeyRow("u2", "payer", 2, {"deposit", "transfer"}, parse_expiry(e2, 0))
                  EXCEPT !.is_active = a2]>> :
              a1 \in BOOLEAN, a2 \in BOOLEAN, e2 \in {"1H", "1D"}}
    /\ sess = [p \in {1} |-> Idle]
    /\ probe = NoProbe

\* get_user_from_api_key is called with an X-API-Key header
KeyProbe ==
    /\ \E x_api_key \in KeyHeaders :
          probe' = [required |-> "key", authorization |-> NoHeader,
                    x_api_key |-> x_api_key,
                    result |-> get_user_from_api_key(x_api_key, api_keys, now)]
    /\ UNCHANGED <<now, wallets, transactions, transfers, api_keys, sess>>

NextKeyAuth ==
    \/ KeyProbe
    \/ SessionRollover
    \/ KeyCommit
    \/ CloseSession
    \/ Tick

SpecKeyAuth == InitKeyAuth /\ [][NextKeyAuth]_vars

\* C26: a key value authenticates exactly when its hash is that of a stored
\* row that is active and whose expiry is not before the present time, and
\* then as the row's owner; a value whose hash is not stored is refused as
\* invalid, the value of an inactive row as revoked whether or not the row has
\* expired, the value of an active row past its expiry as expired; rows keep
\* their hash and expiry and time does not go back, so a key past its expiry
\* never authenticates again
C26_KeyAuthStep ==
    /\ (probe' # probe /\ probe'.required = "key" /\ probe'.x_api_key # NoKeyHeader) =>
          LET x == probe'.x_api_key
              r == probe'.result
              rows == {k \in DOMAIN api_keys : api_keys[k].key_hash = sha256(x)}
          IN
          /\ r.code = 200 <=>
                \E k \in rows : api_keys[k].is_active /\ api_keys[k].expires_at >= now
          /\ r.code = 200 =>
                /\ r.key \in rows
                /\ r.user = api_keys[r.key].user_id
          /\ rows = {} => (r.code = 401 /\ r.detail = "Invalid API key")
          /\ \A k \in rows :
                /\ ~api_keys[k].is_active =>
                      (r.code = 401 /\ r.detail = "API key has been revoked")
                /\ (api_keys[k].is_active /\ api_keys[k].expires_at < now) =>
                      (r.code = 401 /\ r.detail = "API key has expired")
    /\ now' >= now
    /\ \A k \in DOMAIN api_keys :
          /\ k \in DOMAIN api_keys'
          /\ api_keys'[k].key_hash = api_keys[k].key_hash
          /\ api_keys'[k].expires_at = api_keys[k].expires_at
          /\ api_keys'[k].user_id = api_keys[k].user_id
C26_KeyAuth == [][C26_KeyAuthStep]_vars

\* the value of a row that is both inactive and past its expiry was refused
\* as revoked
C26_Witness ==
    /\ probe.required = "key"
    /\ probe.result.detail = "API key has been revoked"
    /\ \E k \in DOMAIN api_keys :
          /\ api_keys[k].key_hash = sha256(probe.x_api_key)
          /\ ~api_keys[k].is_active
          /\ api_keys[k].expires_at < now

\* the value of an active row was refused as expired while the key that
\* replaced it in a rollover exists
C26_WitnessExpired ==
    /\ probe.required = "key"
    /\ probe.result.detail = "API key has expired"
    /\ Cardinality(DOMAIN api_keys) > 2
    /\ \E k \in DOMAIN api_keys :
          /\ api_keys[k].key_hash = sha256(probe.x_api_key)
          /\ api_keys[k].is_active
          /\ api_keys[k].expires_at < now

\* a key authenticated at the very minute of its expiry
C26_WitnessAtExpiry ==
    /\ probe.required = "key"
    /\ probe.result.code = 200
    /\ api_keys[probe.result.key].expires_at = now

\* C27: a rollover by an authenticated caller that names a key id that is not
\* stored, or the key of another user, is refused (404, or 422 when the expiry
\* asked for is malformed), whether or not that key has expired: no key is
\* inserted and the request carries none of that key's name or scopes
C27_ForeignRolloverStep ==
    \A p \in Procs :
        (/\ sess[p].pc = "idle"
         /\ sess'[p].op = "rollover"
         /\ sess'[p].user # NoUser
         /\ \/ sess'[p].expired_key_id \notin DOMAIN api_keys
            \/ api_keys[sess'[p].expired_key_id].user_id # sess'[p].user) =>
            /\ sess'[p].pc = "done"
            /\ sess'[p].code \in {404, 422}
            /\ sess'[p].permissions = {}
            /\ sess'[p].new_key = 0
            /\ api_keys' = api_keys
C27_ForeignRollover == [][C27_ForeignRolloverStep]_vars

\* a caller named another user's key that had expired and was refused
C27_Witness ==
    \E p \in Procs :
        /\ sess[p].op = "rollover" /\ sess[p].pc = "done" /\ sess[p].code = 404
        /\ sess[p].user # NoUser
        /\ sess[p].expired_key_id \in DOMAIN api_keys
        /\ api_keys[sess[p].expired_key_id].user_id # sess[p].user
        /\ api_keys[sess[p].expired_key_id].expires_at < now

\* a caller named another user's key that had not expired and was refused
C27_WitnessNotExpired ==
    \E p \in Procs :
        /\ sess[p].op = "rollover" /\ sess[p].pc = "done" /\ sess[p].code = 404
        /\ sess[p].user # NoUser
        /\ sess[p].expired_key_id \in DOMAIN api_keys
        /\ api_keys[sess[p].expired_key_id].user_id # sess[p].user
        /\ api_keys[sess[p].expired_key_id].expires_at > now

----------------------------------------------------------------------------
(* Redelivery.  The provider delivers a signed success event for each PENDING
   deposit of u1 and, as long as a delivery is not answered 200, delivers it
   again after it has received the answer; meanwhile u1 reads the balance in
   the other request slot.  The provider's record of what was acknowledged and
   what was refused is kept in probe. *)

ProviderRecord(acknowledged, refused) ==
    [required |-> "provider", authorization |-> NoHeader, x_api_key |-> NoKeyHeader,
     result |-> AuthFail(0, ""), acknowledged |-> acknowledged, refused |-> refused]

InitRedelivery ==
    /\ now = 0
    /\ wallets = <<>>
    /\ transactions = [r \in Refs |-> SeedDeposit(r)]
    /\ transfers = <<>>
    /\ api_keys = SeedKeys
    /\ sess = [p \in {1, 2} |-> Idle]
    /\ probe = ProviderRecord({}, {})

\* the provider posts the event of a reference that has not been acknowledged
ProviderDelivers ==
    \E reference \in Refs \ probe.acknowledged :
        LET body == [event |-> "charge.success", reference |-> reference] IN
        paystack_webhook(1, body, hmac_sha512(WebhookSecret, body))

\* the provider receives the answer: 200 acknowledges the event, anything else
\* leaves it to be delivered again
provider_receives(p) ==
    /\ sess[p].pc = "done" /\ sess[p].op = "webhook"
    /\ probe' = IF sess[p].code = 200
                THEN ProviderRecord(probe.acknowledged \cup {sess[p].reference},
                                    probe.refused)
                ELSE ProviderRecord(probe.acknowledged,
                                    probe.refused \cup {sess[p].reference})
    /\ Set(p, Idle)
    /\ UNCHANGED <<now, wallets, transactions, transfers, api_keys>>
ProviderReceives == \E p \in Procs : provider_receives(p)

\* u1 reads the balance in slot 2
OwnerBalance ==
    get_wallet_balance(2, Bearer(create_access_token("u1", now)), NoKeyHeader)
OwnerClose == close_session(2)

NextRedelivery ==
    \/ ProviderDelivers
    \/ WebhookSelectWallet
    \/ WebhookCommit
    \/ ProviderReceives
    \/ OwnerBalance
    \/ BalanceCommit
    \/ OwnerClose

\* the provider keeps delivering, and a request that can take its next step
\* does take it
SpecRedelivery ==
    /\ InitRedelivery
    /\ [][NextRedelivery]_vars
    /\ WF_vars(ProviderDelivers)
    /\ WF_vars(WebhookSelectWallet)
    /\ WF_vars(WebhookCommit)
    /\ WF_vars(ProviderReceives)

\* The same, with a provider that does not wait for a slow answer: it gives up
\* on a delivery that is still being handled and delivers the event again
ProviderRedeliversEarly ==
    \E reference \in Refs \ probe.acknowledged :
        /\ sess[1].op = "webhook" /\ InFlight(1) /\ sess[1].reference = reference
        /\ LET body == [event |-> "charge.success", reference |-> reference] IN
           paystack_webhook(2, body, hmac_sha512(WebhookSecret, body))

NextRedeliveryEarly ==
    \/ NextRedelivery
    \/ ProviderRedeliversEarly

SpecRedeliveryEarly ==
    /\ InitRedelivery
    /\ [][NextRedeliveryEarly]_vars
    /\ WF_vars(ProviderDelivers)
    /\ WF_vars(WebhookSelectWallet)
    /\ WF_vars(WebhookCommit)
    /\ WF_vars(ProviderReceives)

\* every deposit is SUCCESS and the owner's wallet holds their amounts
AllSettled ==
    /\ \A r \in Refs : transactions[r].status = "success"
    /\ "u1" \in DOMAIN wallets
    /\ wallets["u1"] = SumSet(transactions, Refs)

\* C28: when the provider delivers a signed success event for a PENDING
\* deposit again and again until it is answered 200, then from some moment on
\* the deposit is SUCCESS and its amount is in the owner's wallet; and at every
\* moment the wallet holds each SUCCESS deposit's amount once, however many
\* deliveries were made
C28_EventuallySettledOnce ==
    /\ [](BalanceOf(wallets, "u1") = Deposited("u1"))
    /\ <>[]AllSettled

\* when the provider waits for each answer: a delivery was refused (the owner's
\* balance query had created the wallet first), the event was delivered again
\* and acknowledged, and the deposits are settled and credited once each
C28_Witness ==
    /\ probe.required = "provider"
    /\ probe.refused # {}
    /\ probe.acknowledged = Refs
    /\ AllSettled

----------------------------------------------------------------------------
(* Properties of the status query, one request at a time *)

\* C29: a deposit that is answered 201 with a new reference has stored a
\* PENDING Transaction of the amount asked for (in kobo); the amount of a
\* Transaction never changes and its status leaves PENDING only in the commit
\* of a settlement; a status query answers 404 for a reference that names no
\* Transaction and otherwise the reference, amount, status and settlement time
\* of the row, so PENDING until the settlement; the query changes no state
C29_StatusQueryStep ==
    /\ \A p \in Procs :
          (sess[p].pc = "deposit_commit" /\ sess'[p].pc = "done" /\ sess'[p].code = 201) =>
              /\ sess'[p].reference \in DOMAIN transactions'
              /\ transactions'[sess'[p].reference].status = "pending"
              /\ transactions'[sess'[p].reference].amount = convert_to_kobo(sess[p].payload)
    /\ \A r \in DOMAIN transactions :
          /\ transactions'[r].amount = transactions[r].amount
          /\ (transactions[r].status = "pending" /\ transactions'[r].status # "pending") =>
                \E q \in Procs :
                    /\ sess[q].op = "webhook" /\ sess[q].pc = "webhook_commit"
                    /\ sess[q].reference = r
    /\ \A p \in Procs :
          (sess[p].pc = "idle" /\ sess'[p].op = "status") =>
              /\ UNCHANGED <<now, wallets, transactions, transfers, api_keys>>
              /\ sess'[p].pc = "done"
              /\ IF sess'[p].reference \in DOMAIN transactions
                 THEN /\ sess'[p].code = 200
                      /\ sess'[p].detail = transactions[sess'[p].reference].status
                      /\ sess'[p].amount = transactions[sess'[p].reference].amount
                      /\ sess'[p].paid_at = transactions[sess'[p].reference].paid_at
                 ELSE sess'[p].code = 404
C29_StatusQuery == [][C29_StatusQueryStep]_vars

\* the status of an initiated deposit of 2 kobo that is not settled was queried
C29_Witness ==
    \E p \in Procs :
        /\ sess[p].op = "status" /\ sess[p].pc = "done" /\ sess[p].code = 200
        /\ sess[p].detail = "pending" /\ sess[p].amount = 2
        /\ sess[p].paid_at = NoTime
        /\ transactions[sess[p].reference].status = "pending"
        /\ \E r \in DOMAIN transactions : transactions[r].status = "success"

\* the status of a reference that was never created was queried
C29_WitnessNotFound ==
    \E p \in Procs :
        /\ sess[p].op = "status" /\ sess[p].pc = "done" /\ sess[p].code = 404
        /\ sess[p].reference \notin DOMAIN transactions
        /\ transactions # <<>>

----------------------------------------------------------------------------
(* The API keys of one user, two requests at a time *)

\* u1 has created four keys for a day and one for an hour, which has expired;
\* two requests of u1 are served at once, each in its own session
InitKeysConcurrent ==
    /\ now = SeedTime
    /\ wallets = <<>>
    /\ transactions = <<>>
    /\ transfers = <<>>
    /\ api_keys = [k \in 1..5 |->
                      KeyRow("u1", "ci", k, {"read"},
                             parse_expiry(IF k = 5 THEN "1H" ELSE "1D", 0))]
    /\ sess = [p \in {1, 2} |-> Idle]
    /\ probe = NoProbe

OwnerCreatesKey ==
    \E p \in Procs :
        create_api_key(p, Bearer(create_access_token("u1", now)), "ci", {"read"}, "1D")
OwnerRollsOver ==
    \E p \in Procs, id \in RolloverIds :
        rollover_api_key(p, Bearer(create_access_token("u1", now)), id, "1D")

NextKeysConcurrent ==
    \/ OwnerCreatesKey
    \/ OwnerRollsOver
    \/ KeyCommit
    \/ CloseSession

SpecKeysConcurrent == InitKeysConcurrent /\ [][NextKeysConcurrent]_vars

\* C30: however the count checks and the inserts of concurrent create and
\* rollover requests of one user interleave, the user has at most 5 keys that
\* are active with an expiry in the future
C30_ConcurrentCeiling ==
    \A u \in Users : Cardinality(ActiveUnexpired(api_keys, u, now)) <= MaxActiveKeys

----------------------------------------------------------------------------
(* Session tokens as time passes *)

\* how long ago, in minutes, the presented token was issued
IssueAges == {29, 30, 31}

\* a token issued by the login callback some minutes ago for a stored user, or
\* for an id that is no user, is presented to get_current_user or to
\* permission_checker
TokenProbe ==
    /\ \E sub \in Users \cup {Ghost}, age \in IssueAges,
          required \in {"read", "session"}, e \in HTTPBearerErrors :
          LET authorization == Bearer(create_access_token(sub, now - age)) IN
          probe' = [required |-> required, authorization |-> authorization,
                    x_api_key |-> NoKeyHeader,
                    result |-> IF required = "session"
                               THEN get_current_user(authorization, now, e)
                               ELSE require_permission(required, authorization,
                                                       NoKeyHeader, api_keys, now)]
    /\ UNCHANGED <<now, wallets, transactions, transfers, api_keys, sess>>

NextToken ==
    \/ TokenProbe
    \/ SessionCreateKey
    \/ KeyCommit
    \/ CloseSession
    \/ Tick

SpecToken == InitKeys /\ [][NextToken]_vars

\* the time at which the presented token was issued
IssuedAt(token) == token.exp - ACCESS_TOKEN_EXPIRE_MINUTES

\* C31: a token issued for a stored user at time t and presented at a time
\* before t + 30 minutes is accepted, as that user; presented at a time after
\* t + 30 minutes, or naming no stored user, it is refused with 401; this
\* whatever keys have been created meanwhile, and on the endpoints under /keys
\* as on the scope-gated ones
C31_TokenWindowStep ==
    (/\ probe' # probe
     /\ probe'.authorization.scheme = "Bearer"
     /\ probe'.x_api_key = NoKeyHeader
     /\ probe'.authorization.token =
            create_access_token(probe'.authorization.token.sub,
                                IssuedAt(probe'.authorization.token))) =>
        /\ (/\ now < IssuedAt(probe'.authorization.token) + 30
            /\ probe'.authorization.token.sub \in Users) =>
               /\ probe'.result.code = 200
               /\ probe'.result.user = probe'.authorization.token.sub
               /\ probe'.result.via = "jwt"
        /\ (\/ now > IssuedAt(probe'.authorization.token) + 30
            \/ probe'.authorization.token.sub \notin Users) =>
               /\ probe'.result.code = 401
               /\ probe'.result.user = NoUser
C31_TokenWindow == [][C31_TokenWindowStep]_vars

\* a token of u1 issued 31 minutes ago was refused after u1 created a key
C31_Witness ==
    /\ probe # NoProbe
    /\ probe.authorization.token.sub = "u1"
    /\ now = IssuedAt(probe.authorization.token) + 31
    /\ probe.result.code = 401
    /\ \E k \in DOMAIN api_keys : api_keys[k].user_id = "u1"

\* a token of u1 issued 29 minutes ago was accepted
C31_WitnessAccepted ==
    /\ probe # NoProbe
    /\ probe.authorization.token.sub = "u1"
    /\ now = IssuedAt(probe.authorization.token) + 29
    /\ probe.result.code = 200
    /\ probe.result.user = "u1"
    /\ \E k \in DOMAIN api_keys : api_keys[k].user_id = "u1"

----------------------------------------------------------------------------
(* The ledger identity, one request at a time *)

\* C32: when requests are served one at a time, in every state the balance of
\* each user (0 for a user without a wallet) is the sum of the user's SUCCESS
\* deposits, plus the transfers received, minus the transfers sent
C32_LedgerIdentity ==
    \A u \in Users : BalanceOf(wallets, u) = Deposited(u) + Received(u) - Sent(u)

\* u1 has settled deposits, has sent a transfer and has received one
C32_Witness ==
    /\ Deposited("u1") > 0 /\ Sent("u1") > 0 /\ Received("u1") > 0
    /\ "u2" \in DOMAIN wallets
    /\ Deposited("u2") + Received("u2") - Sent("u2") > 0

\* u2 has no wallet while deposits of u2 are pending and u1's are settled
C32_WitnessNoWallet ==
    /\ "u2" \notin DOMAIN wallets
    /\ \E r \in DOMAIN transactions :
          transactions[r].user_id = "u2" /\ transactions[r].status = "pending"
    /\ Deposited("u1") > 0

----------------------------------------------------------------------------
(* Settlements whose events carry more than a reference *)

\* the data of an event as the provider sends it: besides the reference, the
\* amount charged and the customer charged
PayloadAmounts == {1, 2, 5}
PayloadCustomers == Users \cup {Ghost}
PayloadBodies ==
    [event : {"charge.success"}, reference : Refs \cup {UnknownRef},
     amount : PayloadAmounts, customer : PayloadCustomers]

\* u1 has initiated a deposit of 1 and has a wallet; u2 has initiated a
\* deposit of 2 and has none
InitPayload ==
    /\ now = 0
    /\ wallets = [u \in {"u1"} |-> 0]
    /\ transactions = [r \in Refs |->
                          PendingTransaction(IF r = 1 THEN "u1" ELSE "u2", r, r,
                                             authorization_url(r), 0)]
    /\ transfers = <<>>
    /\ api_keys = SeedKeys
    /\ sess = [p \in {1} |-> Idle]
    /\ probe = NoProbe

PayloadDelivery ==
    \E p \in Procs, body \in PayloadBodies :
        paystack_webhook(p, body, hmac_sha512(WebhookSecret, body))

NextPayload ==
    \/ PayloadDelivery
    \/ WebhookSelectWallet
    \/ WebhookCommit
    \/ CloseSession

SpecPayload == InitPayload /\ [][NextPayload]_vars

\* C33: the tables after a settlement are determined by the tables before it
\* and the reference of the event alone: the Transaction of that reference
\* becomes SUCCESS, the wallet of the user stored on it gains the amount stored
\* on it, and nothing else changes, whatever amount and customer the event
\* names; a delivery that settles nothing changes no table
C33_StoredAmountAndOwnerStep ==
    \/ UNCHANGED <<wallets, transactions>>
    \/ \E p \in Procs :
          LET r == sess[p].reference
              owner == transactions[r].user_id IN
          /\ sess[p].op = "webhook" /\ sess[p].pc = "webhook_commit"
          /\ sess[p].signature[3].reference = r
          /\ transactions[r].status = "pending"
          /\ transactions' = [transactions EXCEPT ![r].status = "success",
                                                  ![r].paid_at = transactions'[r].paid_at]
          /\ wallets' = [u \in DOMAIN wallets \cup {owner} |->
                            IF u = owner
                            THEN BalanceOf(wallets, owner) + transactions[r].amount
                            ELSE wallets[u]]
C33_StoredAmountAndOwner == [][C33_StoredAmountAndOwnerStep]_vars

\* the deposit of 2 of u2 was settled by an event that names the amount 5 and
\* the customer u1: u2 holds 2 and u1 holds nothing
C33_Witness ==
    \E p \in Procs :
        /\ sess[p].op = "webhook" /\ sess[p].pc = "done" /\ sess[p].code = 200
        /\ sess[p].detail = "credited"
        /\ sess[p].reference = 2
        /\ sess[p].signature[3].amount = 5
        /\ sess[p].signature[3].customer = "u1"
        /\ transactions[2].status = "success"
        /\ BalanceOf(wallets, "u2") = 2
        /\ BalanceOf(wallets, "u1") = 0

----------------------------------------------------------------------------
(* Properties of a failing token presented together with an API key *)

\* the stored key whose hash is the hash of the header, or 0
KeyOfHeader(x_api_key) ==
    LET found == KeyIdsByHash(api_keys, sha256(x_api_key)) IN
    IF found = {} THEN 0 ELSE CHOOSE k \in found : TRUE

\* C34: when the bearer token does not verify, or names no stored user, and an
\* API key is presented, the token grants nothing: the caller is the owner of
\* the key if the key is stored, active, not expired and holds the required
\* scope; a stored, active, unexpired key without the scope is refused with
\* 403, and any other key with 401
C34_FailingTokenWithKey ==
    (/\ probe # NoProbe
     /\ probe.required \in Scopes
     /\ probe.authorization.scheme = "Bearer"
     /\ ~VerifiedBearer(probe.authorization, now)
     /\ probe.x_api_key # NoKeyHeader) =>
        LET k == KeyOfHeader(probe.x_api_key)
            usable == /\ k # 0
                      /\ api_keys[k].is_active
                      /\ api_keys[k].expires_at >= now
                      /\ api_keys[k].user_id \in Users IN
        /\ probe.result = require_permission(probe.required, NoHeader, probe.x_api_key,
                                             api_keys, now)
        /\ IF usable /\ probe.required \in api_keys[k].permissions
           THEN /\ probe.result.code = 200
                /\ probe.result.user = api_keys[k].user_id
                /\ probe.result.via = "api_key"
                /\ probe.result.key = k
           ELSE /\ probe.result.user = NoUser
                /\ probe.result.code = IF usable THEN 403 ELSE 401

\* an expired token of u1 was presented with u2's key for a transfer, and the
\* caller is u2
C34_Witness ==
    /\ probe.required = "transfer"
    /\ probe.authorization.scheme = "Bearer"
    /\ probe.authorization.token.form = "jwt"
    /\ probe.authorization.token.key = AppSecret
    /\ probe.authorization.token.sub = "u1"
    /\ probe.authorization.token.exp < now
    /\ probe.x_api_key = PlainKey(2)
    /\ probe.result.code = 200
    /\ probe.result.user = "u2"

\* a forged token of u2 was presented with u1's read-only key for a transfer,
\* and the request was refused with 403
C34_WitnessForbidden ==
    /\ probe.required = "transfer"
    /\ probe.authorization.scheme = "Bearer"
    /\ probe.authorization.token.key # AppSecret
    /\ probe.authorization.token.sub = "u2"
    /\ probe.x_api_key = PlainKey(1)
    /\ probe.result.code = 403

\* a token that names no stored user was presented with an expired key, and
\* the request was refused with 401
C34_WitnessExpiredKey ==
    /\ probe.authorization.scheme = "Bearer"
    /\ probe.authorization.token.key = AppSecret
    /\ probe.authorization.token.exp >= now
    /\ probe.authorization.token.sub = Ghost
    /\ probe.x_api_key = PlainKey(3)
    /\ probe.result.code = 401
    /\ probe.result.detail = "API key has expired"

----------------------------------------------------------------------------
(* The three uses of a key's expiry *)

\* the key authenticates a caller who presents its secret at time t
Authenticates(k, t) == get_user_from_api_key(PlainKey(k), api_keys, t).code = 200

\* C35: at every instant, an active key authenticates its caller if and only
\* if it counts toward its owner's ceiling, and if and only if a rollover of
\* it is refused as not expired yet
C35_ExpiryUsesAgree ==
    \A k \in DOMAIN api_keys :
        api_keys[k].is_active =>
            /\ Authenticates(k, now) <=> CountsAsActive(api_keys[k], api_keys[k].user_id, now)
            /\ Authenticates(k, now) <=> NotExpiredYet(api_keys[k], now)

----------------------------------------------------------------------------
(* Repeated rollover of one expired key *)

\* the keys that carry the owner, label and scopes of key k, k apart
SameLabelAndScopes(keys, k) ==
    {j \in DOMAIN keys \ {k} :
        /\ keys[j].user_id = keys[k].user_id
        /\ keys[j].name = keys[k].name
        /\ keys[j].permissions = keys[k].permissions}

\* C36: the commit of a rollover leaves the record of the replaced key, and
\* every other stored record, as it was and adds one active key of the caller
\* with the replaced key's scopes and label; a rollover of a key of the caller
\* whose expiry is not in the future is accepted whenever the caller has fewer
\* than 5 live keys, however many keys were derived from that key before, and
\* refused for the ceiling otherwise
C36_RepeatedRolloverStep ==
    \A p \in Procs :
        /\ (sess[p].pc = "key_commit" /\ sess[p].op = "rollover" /\ sess'[p].pc = "done") =>
              LET old == sess[p].expired_key_id
                  new == sess'[p].new_key IN
              /\ api_keys'[old] = api_keys[old]
              /\ \A k \in DOMAIN api_keys : api_keys'[k] = api_keys[k]
              /\ DOMAIN api_keys' \ DOMAIN api_keys = {new}
              /\ api_keys'[new].is_active
              /\ SameLabelAndScopes(api_keys', old) = SameLabelAndScopes(api_keys, old) \cup {new}
        /\ (/\ RolloverOfOwnKey(p)
            /\ api_keys[sess'[p].expired_key_id].expires_at <= now) =>
              LET live == Cardinality(ActiveUnexpired(api_keys, sess'[p].user, now)) IN
              /\ api_keys' = api_keys
              /\ IF live < MaxActiveKeys
                 THEN sess'[p].pc = "key_commit"
                 ELSE /\ sess'[p].pc = "done"
                      /\ sess'[p].detail = "Maximum of 5 active API keys"
C36_RepeatedRollover == [][C36_RepeatedRolloverStep]_vars

\* the expired key 2 of u2 has been rolled over five times: five live keys
\* carry its label and scopes, its record is as it was created, and a sixth
\* rollover of it has been refused for the ceiling
C36_Witness ==
    \E p \in Procs :
        /\ sess[p].op = "rollover" /\ sess[p].pc = "done" /\ sess[p].code = 400
        /\ sess[p].detail = "Maximum of 5 active API keys"
        /\ sess[p].expired_key_id = 2
        /\ api_keys[2] = KeyRow("u2", "payer", 2, {"deposit", "transfer"}, parse_expiry("1H", 0))
        /\ SameLabelAndScopes(api_keys, 2) = ActiveUnexpired(api_keys, "u2", now)
        /\ Cardinality(SameLabelAndScopes(api_keys, 2)) = MaxActiveKeys

\* the expired key 2 has been rolled over a second time
C36_WitnessTwice ==
    \E p \in Procs :
        /\ sess[p].op = "rollover" /\ sess[p].pc = "done" /\ sess[p].code = 200
        /\ sess[p].expired_key_id = 2
        /\ Cardinality(SameLabelAndScopes(api_keys, 2)) = 2

----------------------------------------------------------------------------
(* The records of table api_keys once created *)

\* C37: no step changes a stored APIKey record (owner, label, hash, scopes,
\* expiry, active flag, revocation timestamp) or removes one; a key that
\* authenticates before a step and not after it has an expiry that the clock
\* has passed in that step
C37_KeyRecordFrozenStep ==
    \A k \in DOMAIN api_keys :
        /\ k \in DOMAIN api_keys'
        /\ api_keys'[k] = api_keys[k]
        /\ api_keys'[k].permissions \subseteq api_keys[k].permissions
        /\ (/\ get_user_from_api_key(PlainKey(k), api_keys, now).code = 200
            /\ get_user_from_api_key(PlainKey(k), api_keys', now').code # 200) =>
               /\ now' > now
               /\ api_keys[k].expires_at >= now
               /\ api_keys[k].expires_at < now'
               /\ get_user_from_api_key(PlainKey(k), api_keys', now').detail
                      = "API key has expired"
C37_KeyRecordFrozen == [][C37_KeyRecordFrozenStep]_vars

\* a key that u1 created for an hour has expired, is stored as it was created,
\* and has been rolled over
C37_Witness ==
    \E p \in Procs :
        /\ sess[p].op = "rollover" /\ sess[p].pc = "done" /\ sess[p].code = 200
        /\ sess[p].user = "u1"
        /\ LET k == sess[p].expired_key_id IN
           /\ api_keys[k] = KeyRow("u1", "ci", k, {"read"}, parse_expiry("1H", 0))
           /\ api_keys[k].expires_at < now
           /\ get_user_from_api_key(PlainKey(k), api_keys, now).detail = "API key has expired"

----------------------------------------------------------------------------
(* Key creation and rollover by a caller who holds an API key only *)

\* the Authorization header of a caller without a session token: absent (the
\* key travels in X-API-Key, which these routes do not read), or carrying the
\* key itself, which is no JWT
KeyOnlyHeaders ==
    {NoHeader, Bearer([form |-> "garbage", sub |-> NoUser, exp |-> 0, key |-> ""])}

KeyHolderCreates ==
    \E p \in Procs, authorization \in KeyOnlyHeaders :
        create_api_key(p, authorization, "all", Scopes, "1Y")
KeyHolderRollsOver ==
    \E p \in Procs, authorization \in KeyOnlyHeaders, expired_key_id \in RolloverIds :
        rollover_api_key(p, authorization, expired_key_id, "1Y")

NextKeyOnly ==
    \/ KeyHolderCreates
    \/ KeyHolderRollsOver
    \/ SessionCreateKey
    \/ SessionRollover
    \/ KeyCommit
    \/ CloseSession

SpecKeyOnly == Init /\ [][NextKeyOnly]_vars

\* a request to /keys/create or /keys/rollover that carries no session token
\* is answered in this step
KeyOnlyRequest(p) == KeyRequestBegins(p) /\ sess'[p].user \notin Users

\* C38: a request to create or roll over a key that presents an API key and
\* no session token is refused as unauthenticated (401) and creates no key
C38_KeyOnlyRefusedStep ==
    \A p \in Procs :
        KeyOnlyRequest(p) =>
            /\ sess'[p].pc = "done"
            /\ sess'[p].code = 401
            /\ sess'[p].new_key = 0
            /\ api_keys' = api_keys
C38_KeyOnlyCreatesNothingStep ==
    /\ \A p \in Procs :
          KeyOnlyRequest(p) =>
              /\ sess'[p].pc = "done"
              /\ sess'[p].code \in {401, 403}
              /\ sess'[p].new_key = 0
              /\ api_keys' = api_keys
    /\ \A k \in DOMAIN api_keys' \ DOMAIN api_keys :
          \E p \in Procs :
              /\ sess[p].pc = "key_commit" /\ sess[p].via = "jwt"
              /\ api_keys'[k].user_id = sess[p].user
C38_KeyOnlyCreatesNothing == [][C38_KeyOnlyCreatesNothingStep]_vars

====
